---- MODULE Spec2Model ----
(***************************************************************************)
(* Evaluation pipeline of the Evaluator repository: the Rubric, the code   *)
(* and content analyzers, the aggregator and the orchestrator              *)
(* (src/backend/core).                                                     *)
(*                                                                         *)
(* Numbers.  Sub-criterion scores are whole points.  Weights are written   *)
(* in hundredths (0.4 is 40), so a weighted total and an analyzer's        *)
(* max_score are in hundredths of a point ("centipoints": 2.0 is 200),     *)
(* which is the precision round(x, 2) keeps.  The aggregator's divisions   *)
(* are done on exact fractions <<numerator, denominator>>.                 *)
(*                                                                         *)
(* Text.  A feedback line is a sequence of tokens; a leading glyph is a    *)
(* token of its own, written in ASCII: "CHECK" is the check mark, "ARROW"  *)
(* the right arrow, "CROSS" the cross mark, "INFO" the information sign,   *)
(* "WARN" the warning sign, "SQRT" the square-root sign.  "[x] y" is       *)
(* <<"[", "x", "]", "y">> and the empty string is <<>>.                   *)
(***************************************************************************)
EXTENDS Integers, Sequences, FiniteSets, TLC

VARIABLES
    rubric,           \* Orchestrator.rubric (an accepted Rubric)
    code_agent,       \* CodeEvaluationAgent instance attributes, its LLMService included
    content_agent,    \* ContentEvaluationAgent instance attributes, its LLMService included
    pc,               \* "idle", "running", "returned" or "raised"
    assignment_type,  \* argument of the current evaluate_submissions call
    problem,          \* problem statement of the current call
    reference,        \* ideal reference of the current call
    todo,             \* submissions (or students) not yet visited by the loop
    batch,            \* everything read from the folder for the current call
    results,          \* the result map under construction / returned
    error,            \* the exception that left evaluate_submissions, or "none"
    call,             \* the analyzer calls of the last loop iteration
    arg,              \* input of the pure function under study
    out               \* its outputs

vars == <<rubric, code_agent, content_agent, pc, assignment_type,
          problem, reference, todo, batch, results, error, call, arg, out>>

-----------------------------------------------------------------------------
(* Generic helpers *)

Min(a, b) == IF a <= b THEN a ELSE b

Range(s) == {s[i] : i \in DOMAIN s}

RECURSIVE SumSeq(_)
SumSeq(s) == IF s = <<>> THEN 0 ELSE Head(s) + SumSeq(Tail(s))

RECURSIVE Gcd(_, _)
Gcd(a, b) == IF b = 0 THEN a ELSE Gcd(b, a % b)

Abs(a) == IF a < 0 THEN -a ELSE a

\* An exact fraction n/d with d > 0, in lowest terms.
Frac(n, d) ==
    LET s == IF d < 0 THEN -1 ELSE 1
        g == Gcd(Abs(n), Abs(d))
    IN  <<(s * n) \div g, (s * d) \div g>>

FAdd(p, q) == Frac(p[1] * q[2] + q[1] * p[2], p[2] * q[2])
FMul(p, q) == Frac(p[1] * q[1], p[2] * q[2])
FDiv(p, q) == Frac(p[1] * q[2], p[2] * q[1])
FLess(p, q) == p[1] * q[2] < q[1] * p[2]
FLeq(p, q) == p[1] * q[2] <= q[1] * p[2]
FMin(p, q) == IF FLeq(p, q) THEN p ELSE q

RECURSIVE FSum(_)
FSum(s) == IF s = <<>> THEN <<0, 1>> ELSE FAdd(Head(s), FSum(Tail(s)))

\* round(x, 2) of a fraction of points, as centipoints (nearest, half up).
Round2(p) == (200 * p[1] + p[2]) \div (2 * p[2])

StartsWith(f, s) == Len(f) >= Len(s) /\ SubSeq(f, 1, Len(s)) = s

StartsWithAny(f, S) == \E s \in S : StartsWith(f, s)

Contains(f, tok) == \E i \in DOMAIN f : f[i] = tok

-----------------------------------------------------------------------------
(* AggregatorAgent *)

SENTINEL == "LLM Explanation:"

\* _normalize_score: score and max_score in centipoints, result in points.
NormalizeScore(score, max_score) ==
    IF max_score = 0 THEN <<0, 1>> ELSE FMul(Frac(score, max_score), <<100, 1>>)

\* _get_weights on a supplied weight list (hundredths) for num_agents outputs:
\* the list of effective weights, or the exception the division raises.
PaddedWeights(weights, num_agents) ==
    IF Len(weights) < num_agents
    THEN LET remaining == Frac(100 - SumSeq(weights), 100)
             each == FDiv(remaining, <<num_agents - Len(weights), 1>>)
         IN  [i \in 1..num_agents |->
                 IF i <= Len(weights) THEN Frac(weights[i], 100) ELSE each]
    ELSE [i \in 1..num_agents |-> Frac(weights[i], 100)]

GetWeights(weights, num_agents) ==
    LET w == PaddedWeights(weights, num_agents)
        total == FSum(w)
    IN  IF total[1] = 0
        THEN [raised |-> "ZeroDivisionError", weights |-> <<>>]
        ELSE [raised |-> "none",
              weights |-> [i \in 1..Len(w) |-> FDiv(w[i], total)]]

\* _apply_learning_oriented_normalization on a fraction of points.
ApplyLearningOrientedNormalization(score) ==
    IF FLess(score, <<40, 1>>)
    THEN FMin(FMul(score, <<11, 10>>), <<40, 1>>)
    ELSE IF FLess(score, <<60, 1>>)
         THEN FMul(score, <<21, 20>>)
         ELSE score

\* The list as it is: repeats are not removed.
KeepRepeats(s, seen) == s

\* "Remove exact duplicates while preserving order"
RECURSIVE Dedup(_, _)
Dedup(s, seen) ==
    IF s = <<>> THEN <<>>
    ELSE IF Head(s) \in seen THEN Dedup(Tail(s), seen)
         ELSE <<Head(s)>> \o Dedup(Tail(s), seen \cup {Head(s)})

SectionMarkers == {<<"CHECK">>, <<"ARROW">>, <<"CROSS">>, <<"INFO">>, <<"##">>,
                   <<"[">>, <<"SQRT">>}

NeutralExcluded == {<<"CHECK">>, <<"ARROW">>, <<"CROSS">>, <<"INFO">>, <<"##">>,
                    <<"[">>}

\* The loop of _combine_feedback that separates the elaboration block:
\* returns <<llm_explanations, final_unique_feedback>>.
RECURSIVE ExtractLLM(_, _, _, _)
ExtractLLM(s, is_llm_section, llm_explanations, final) ==
    IF s = <<>> THEN <<llm_explanations, final>>
    ELSE LET f == Head(s) IN
         IF Contains(f, SENTINEL)
         THEN ExtractLLM(Tail(s), TRUE, llm_explanations, final)
         ELSE IF is_llm_section /\ ~StartsWithAny(f, SectionMarkers)
              THEN ExtractLLM(Tail(s), TRUE, Append(llm_explanations, f), final)
              ELSE ExtractLLM(Tail(s), FALSE, llm_explanations, Append(final, f))

CombineFeedback(feedback_list) ==
    IF feedback_list = <<>> THEN << <<"No feedback available.">> >>
    ELSE
    LET unique_feedback == Dedup(feedback_list, {})
        strengths == SelectSeq(unique_feedback, LAMBDA f : StartsWith(f, <<"CHECK">>))
        improvements == SelectSeq(unique_feedback, LAMBDA f : StartsWith(f, <<"ARROW">>))
        issues == SelectSeq(unique_feedback,
                      LAMBDA f : StartsWith(f, <<"CROSS">>) \/ StartsWith(f, <<"[", "x", "]">>))
        split == ExtractLLM(unique_feedback, FALSE, <<>>, <<>>)
        llm_explanations == split[1]
        final_unique_feedback == split[2]
        neutral == SelectSeq(final_unique_feedback,
                      LAMBDA f : ~StartsWithAny(f, NeutralExcluded))
        info == SelectSeq(final_unique_feedback, LAMBDA f : StartsWith(f, <<"INFO">>))
        organized ==
            (IF llm_explanations # <<>>
             THEN << <<"##", "AI Evaluator">> >> \o llm_explanations \o << <<>> >>
             ELSE <<>>)
            \o (IF strengths # <<>> THEN << <<"##", "Strengths">> >> \o strengths ELSE <<>>)
            \o (IF improvements # <<>>
                THEN << <<"##", "Areas for Improvement">> >> \o improvements ELSE <<>>)
            \o (IF issues # <<>> THEN << <<"##", "Issues to Address">> >> \o issues ELSE <<>>)
            \o (IF info # <<>> THEN << <<"##", "Additional Notes">> >> \o info ELSE <<>>)
            \o neutral
    IN  IF organized # <<>> THEN organized ELSE unique_feedback

RECURSIVE AllFeedback(_)
AllFeedback(agent_outputs) ==
    IF agent_outputs = <<>> THEN <<>>
    ELSE Head(agent_outputs).feedback \o AllFeedback(Tail(agent_outputs))

\* AggregatorAgent.evaluate: agent_outputs is a sequence of analyzer results,
\* weights the rubric's weight list (hundredths); final_score and max_score
\* are in centipoints (max_score = 100 is 10000).
AggregatorEvaluate(agent_outputs, weights) ==
    IF agent_outputs = <<>>
    THEN [raised |-> "none", final_score |-> 0, max_score |-> 10000,
          combined_feedback |-> << <<"No agent outputs to evaluate.">> >>]
    ELSE
    LET scores == [i \in 1..Len(agent_outputs) |->
                      NormalizeScore(agent_outputs[i].score, agent_outputs[i].max_score)]
        gw == GetWeights(weights, Len(scores))
    IN  IF gw.raised # "none"
        THEN [raised |-> gw.raised]
        ELSE LET final_score ==
                     ApplyLearningOrientedNormalization(
                         FSum([i \in 1..Len(scores) |-> FMul(scores[i], gw.weights[i])]))
             IN  [raised |-> "none",
                  final_score |-> Round2(final_score),
                  max_score |-> 10000,
                  combined_feedback |-> CombineFeedback(AllFeedback(agent_outputs))]

-----------------------------------------------------------------------------
(* Inputs: problem statements, reference texts and submission files.  A text *)
(* is described by what the analyzers read from it: the lower-cased words it *)
(* contains as substrings and the counts their scans produce.                *)

\* A problem statement: the words \b\w+\b finds in its lower-cased text.
\*   "p1": "Write a function to compute the factorial of a number (an integer) by recursion"
\*   "p2": "Write the function"          "none": the empty string
ProblemWords(p) ==
    CASE p = "p1" -> {"write", "function", "compute", "the", "factorial", "of",
                      "number", "integer", "recursion"}
      [] p = "p2" -> {"write", "the", "function"}
      [] OTHER -> {}

Problems == {"none", "p1", "p2"}

\* An ideal reference: "r1" is "iterative multiplication product", "none" is "".
ReferenceWords(r) ==
    CASE r = "r1" -> {"iterative", "multiplication", "product"}
      [] OTHER -> {}

References == {"none", "r1"}

\* Submission texts.  parse is what ast.parse does with the text; similarity is
\* 100 * SequenceMatcher(None, problem, text).ratio() for each non-empty problem.
BaseText ==
    [id |-> "empty", size |-> 0, cpp_marker |-> FALSE, parse |-> "ok", words |-> {},
     long_lines |-> 0, py_comments |-> 0, cpp_comments |-> 0,
     py_defs |-> 0, py_assign |-> FALSE, cpp_defs |-> 0, cpp_ns |-> FALSE,
     py_code_lines |-> 0, cpp_code_lines |-> 0, py_control |-> 0, cpp_control |-> 0,
     similarity |-> [p1 |-> 0, p2 |-> 0],
     paragraphs |-> 0, sentences |-> 0, sentence_words |-> 0, transitions |-> 0,
     word_count |-> 0, has_examples |-> FALSE, has_reasoning |-> FALSE]

\* A commented recursive factorial in Python.
GoodPy ==
    [BaseText EXCEPT !.id = "good_py", !.size = 300,
        !.words = {"compute", "factorial", "number", "recursion", "the", "of"},
        !.py_comments = 2, !.cpp_comments = 0, !.py_defs = 1, !.py_assign = TRUE,
        !.py_code_lines = 8, !.cpp_code_lines = 10, !.py_control = 2, !.cpp_control = 1,
        !.similarity = [p1 |-> 25, p2 |-> 5],
        !.paragraphs = 10, !.sentences = 2, !.sentence_words = 40, !.word_count = 40]

\* 'def factorial(n:' followed by 'return 1': a syntax error.
SyntaxPy ==
    [BaseText EXCEPT !.id = "syntax_py", !.size = 30, !.parse = "SyntaxError",
        !.words = {"factorial"},
        !.py_code_lines = 2, !.cpp_code_lines = 2,
        !.similarity = [p1 |-> 15, p2 |-> 10],
        !.paragraphs = 2, !.sentences = 1, !.sentence_words = 4, !.word_count = 4]

\* One unterminated statement longer than 100 characters, no comment:
\* 'factorial_of_number = (1 * 2 * ...'.
SyntaxLongPy ==
    [BaseText EXCEPT !.id = "syntax_long_py", !.size = 130, !.parse = "SyntaxError",
        !.words = {"factorial", "number"},
        !.long_lines = 1, !.py_code_lines = 1, !.cpp_code_lines = 1,
        !.similarity = [p1 |-> 5, p2 |-> 5],
        !.paragraphs = 1, !.sentences = 1, !.sentence_words = 20, !.word_count = 20]

\* 'x = 1+1+...+1' with 100000 terms: ast.parse raises RecursionError.
DeepPy ==
    [BaseText EXCEPT !.id = "deep_py", !.size = 200000, !.parse = "RecursionError",
        !.long_lines = 1, !.py_code_lines = 1, !.cpp_code_lines = 1,
        !.paragraphs = 1, !.sentences = 1, !.sentence_words = 3, !.word_count = 3]

\* 'print("hello")': parses, shares no word with any problem statement.
UnrelatedPy ==
    [BaseText EXCEPT !.id = "unrelated_py", !.size = 14,
        !.py_code_lines = 1, !.cpp_code_lines = 1,
        !.similarity = [p1 |-> 10, p2 |-> 20],
        !.paragraphs = 1, !.sentences = 1, !.sentence_words = 1, !.word_count = 1]

\* A commented bubble sort in Python, two functions: no word of any problem.
SorterPy ==
    [BaseText EXCEPT !.id = "sorter_py", !.size = 400,
        !.py_comments = 2, !.py_defs = 2, !.py_assign = TRUE,
        !.py_code_lines = 12, !.cpp_code_lines = 14, !.py_control = 3,
        !.similarity = [p1 |-> 5, p2 |-> 5],
        !.paragraphs = 14, !.sentences = 2, !.sentence_words = 50, !.word_count = 50]

\* 'result = 1', 'for i in range(n): result *= i', '# number': one keyword of five.
PartialPy ==
    [BaseText EXCEPT !.id = "partial_py", !.size = 60, !.words = {"number"},
        !.py_comments = 1, !.py_assign = TRUE, !.py_code_lines = 3, !.cpp_code_lines = 4,
        !.py_control = 1,
        !.similarity = [p1 |-> 12, p2 |-> 8],
        !.paragraphs = 4, !.sentences = 1, !.sentence_words = 12, !.word_count = 12]

\* A C++ factorial: '#include <iostream>', 'int factorial(int number) {', 'std::cout'.
CppSol ==
    [BaseText EXCEPT !.id = "cpp_sol", !.size = 250, !.cpp_marker = TRUE,
        !.parse = "SyntaxError", !.words = {"factorial", "number"},
        !.py_comments = 1, !.cpp_comments = 1, !.cpp_defs = 2, !.cpp_ns = TRUE,
        !.py_code_lines = 8, !.cpp_code_lines = 8, !.cpp_control = 1,
        !.similarity = [p1 |-> 20, p2 |-> 5],
        !.paragraphs = 9, !.sentences = 1, !.sentence_words = 30, !.word_count = 30]

\* A four-paragraph essay on computing factorials, with examples and reasons.
EssayGood ==
    [BaseText EXCEPT !.id = "essay_good", !.size = 2000, !.parse = "SyntaxError",
        !.words = {"write", "function", "compute", "the", "factorial", "of", "number",
                   "recursion", "iterative", "multiplication", "product"},
        !.py_code_lines = 4, !.cpp_code_lines = 4,
        !.similarity = [p1 |-> 8, p2 |-> 2],
        !.paragraphs = 4, !.sentences = 20, !.sentence_words = 320, !.transitions = 3,
        !.word_count = 320, !.has_examples = TRUE, !.has_reasoning = TRUE]

\* The text of problem statement "p1" with the word ' yes' added.
CopiedPrompt ==
    [BaseText EXCEPT !.id = "copied_prompt", !.size = 90, !.parse = "SyntaxError",
        !.words = {"write", "function", "compute", "the", "factorial", "of",
                   "number", "integer", "recursion"},
        !.py_code_lines = 1, !.cpp_code_lines = 1,
        !.similarity = [p1 |-> 97, p2 |-> 35],
        !.paragraphs = 1, !.sentences = 1, !.sentence_words = 15, !.word_count = 15]

Texts == {BaseText, GoodPy, SyntaxPy, SyntaxLongPy, DeepPy, UnrelatedPy, SorterPy,
          PartialPy, CppSol, EssayGood, CopiedPrompt}

\* The files a submissions folder may hold: name (stem, suffix) and the id of its text.
File(stem, ext, text) == [stem |-> stem, ext |-> ext, text |-> text]

Files ==
    {File("alice", "py", "good_py"), File("bob", "py", "syntax_py"),
     File("carol", "py", "deep_py"), File("dave", "py", "unrelated_py"),
     File("erin", "py", "syntax_long_py"), File("frank", "py", "partial_py"),
     File("alice", "txt", "essay_good"), File("bob", "txt", "copied_prompt"),
     File("dave", "txt", "cpp_sol"), File("erin", "txt", "empty"),
     File("gina", "py", "sorter_py")}

\* The text a file holds.
TextOf(id) == CHOOSE t \in Texts : t.id = id

-----------------------------------------------------------------------------
(* LLMService (src/utils/llm_service.py).  The remote model is an oracle: *)
(* env.verdict is what the request loop of check_relevance ends with and   *)
(* env.elaboration the lines the request loop of generate_semantic_feedback *)
(* ends with (<<>> when every request failed).  api_key says whether       *)
(* GEMINI_API_KEY is set, configure_ok whether genai.configure succeeds.   *)

Verdicts == {"RELEVANT", "PARTIAL", "IRRELEVANT", "UNCERTAIN"}

\* __init__: LLM_ENABLED and GEMINI_API_KEY are read from the environment.
NewLLMService(enabled, api_key, configure_ok) ==
    [enabled |-> enabled, api_key |-> api_key, configure_ok |-> configure_ok,
     setup_done |-> FALSE, relevance_calls |-> 0]

\* _ensure_setup
EnsureSetup(llm) ==
    IF llm.setup_done \/ ~llm.enabled THEN llm
    ELSE IF ~llm.api_key THEN [llm EXCEPT !.enabled = FALSE]
    ELSE IF llm.configure_ok THEN [llm EXCEPT !.setup_done = TRUE]
    ELSE [llm EXCEPT !.enabled = FALSE, !.setup_done = TRUE]

\* check_relevance answering RELEVANT where its requests yield no verdict.
CheckRelevanceOptimistic(llm, env) ==
    IF ~llm.enabled
    THEN [verdict |-> "UNCERTAIN", llm |-> [llm EXCEPT !.relevance_calls = @ + 1]]
    ELSE [verdict |-> IF env.verdict = "UNCERTAIN" THEN "RELEVANT" ELSE env.verdict,
          llm |-> [EnsureSetup(llm) EXCEPT !.relevance_calls = @ + 1]]

\* check_relevance entered a second time for the same submission.
CheckRelevanceTwice(llm, env) ==
    IF ~llm.enabled
    THEN [verdict |-> "UNCERTAIN", llm |-> [llm EXCEPT !.relevance_calls = @ + 2]]
    ELSE [verdict |-> env.verdict,
          llm |-> [EnsureSetup(llm) EXCEPT !.relevance_calls = @ + 2]]

\* check_relevance: the verdict and the service afterwards.  relevance_calls
\* counts the times the method was entered on this instance.
CheckRelevance(llm, env) ==
    IF ~llm.enabled
    THEN [verdict |-> "UNCERTAIN", llm |-> [llm EXCEPT !.relevance_calls = @ + 1]]
    ELSE [verdict |-> env.verdict,
          llm |-> [EnsureSetup(llm) EXCEPT !.relevance_calls = @ + 1]]

\* generate_semantic_feedback: the lines and the service afterwards.
GenerateSemanticFeedback(llm, env) ==
    IF ~llm.enabled THEN [lines |-> <<>>, llm |-> llm]
    ELSE [lines |-> env.elaboration, llm |-> EnsureSetup(llm)]

-----------------------------------------------------------------------------
(* CodeEvaluationAgent (src/backend/core/agents/code_agent.py) *)

STOP_WORDS ==
    {"function", "return", "class", "solution", "input", "output", "code",
     "string", "include", "std", "write", "example", "explanation", "leetcode",
     "implement", "given", "problem", "following", "int", "float", "double",
     "bool", "void", "vector", "list", "map", "set", "array", "if", "for",
     "while", "const", "main", "args", "public", "private"}

\* __init__, with the attributes evaluate creates later still unset.
NewCodeAgent(enabled, api_key, configure_ok) ==
    [llm |-> NewLLMService(enabled, api_key, configure_ok),
     has_missing |-> FALSE, last_missing_concepts |-> {},
     has_verdict |-> FALSE, last_relevance_verdict |-> "UNCERTAIN"]

\* _detect_language: ext is the text after the last '.' of the filename.
DetectLanguage(text, ext) ==
    IF ext \in {"cpp", "cc", "cxx", "h", "hpp"} THEN "cpp"
    ELSE IF ext = "py" THEN "python"
    ELSE IF text.cpp_marker THEN "cpp"
    ELSE "python"

\* problem_keywords of _evaluate_approach_python / _evaluate_approach_cpp
ProblemKeywords(p) == {w \in ProblemWords(p) : Len(w) >= 4 /\ w \notin STOP_WORDS}

\* The verdict alone deciding the score: the keyword ratio is not consulted
\* when the oracle says RELEVANT or PARTIAL.
KeywordApproachFlat(covered, total, llm_verdict) ==
    IF llm_verdict \in {"RELEVANT", "PARTIAL"}
    THEN <<IF llm_verdict = "RELEVANT" THEN 100 ELSE 80,
           << <<"Relevant approach with good keyword alignment.">> >> >>
    ELSE IF (total > 0 /\ 4 * covered >= total) \/ covered >= 2
         THEN <<75, << <<"Code appears relevant based on keyword match (",
                         ToString(covered), "matches).">> >> >>
         ELSE <<0, << <<"Irrelevant submission: Code does not address problem (Low match ratio:",
                        ToString(IF total > 0 THEN (100 * covered) \div total ELSE 0),
                        "%, Found", ToString(covered), "keywords).">> >> >>

\* The keyword fallback asking for three matches where the code asks for two.
KeywordApproachStrict(covered, total, llm_verdict) ==
    IF llm_verdict \in {"RELEVANT", "PARTIAL"}
    THEN IF (total > 0 /\ 10 * covered >= 3 * total) \/ covered >= 3
         THEN <<IF llm_verdict = "RELEVANT" THEN 100 ELSE 80,
                << <<"Relevant approach with good keyword alignment.">> >> >>
         ELSE IF total > 0 /\ 100 * covered >= 15 * total
              THEN <<IF llm_verdict = "RELEVANT" THEN 90 ELSE 60,
                     << <<"Relevant approach (LLM verified).">> >> >>
              ELSE <<IF llm_verdict = "RELEVANT" THEN 80 ELSE 30,
                     << <<"LLM verified relevance, but keyword match is minimal.">> >> >>
    ELSE IF covered >= 3
         THEN <<75, << <<"Code appears relevant based on keyword match (",
                         ToString(covered), "matches).">> >> >>
         ELSE <<0, << <<"Irrelevant submission: Code does not address problem (Low match ratio:",
                        ToString(IF total > 0 THEN (100 * covered) \div total ELSE 0),
                        "%, Found", ToString(covered), "keywords).">> >> >>

\* The keyword fallback taking the match ratio of an empty keyword list as 1.
KeywordApproachLenient(covered, total, llm_verdict) ==
    IF llm_verdict \in {"RELEVANT", "PARTIAL"}
    THEN IF (total > 0 /\ 10 * covered >= 3 * total) \/ covered >= 3
         THEN <<IF llm_verdict = "RELEVANT" THEN 100 ELSE 80,
                << <<"Relevant approach with good keyword alignment.">> >> >>
         ELSE IF total > 0 /\ 100 * covered >= 15 * total
              THEN <<IF llm_verdict = "RELEVANT" THEN 90 ELSE 60,
                     << <<"Relevant approach (LLM verified).">> >> >>
              ELSE <<IF llm_verdict = "RELEVANT" THEN 80 ELSE 30,
                     << <<"LLM verified relevance, but keyword match is minimal.">> >> >>
    ELSE IF total = 0 \/ 4 * covered >= total \/ covered >= 2
         THEN <<75, << <<"Code appears relevant based on keyword match (",
                         ToString(covered), "matches).">> >> >>
         ELSE <<0, << <<"Irrelevant submission: Code does not address problem (Low match ratio:",
                        ToString((100 * covered) \div total),
                        "%, Found", ToString(covered), "keywords).">> >> >>

\* The scoring both _evaluate_approach_python and _evaluate_approach_cpp do
\* once the text is accepted: <<score, feedback lines>>.
KeywordApproach(covered, total, llm_verdict) ==
    IF llm_verdict \in {"RELEVANT", "PARTIAL"}
    THEN IF (total > 0 /\ 10 * covered >= 3 * total) \/ covered >= 3
         THEN <<IF llm_verdict = "RELEVANT" THEN 100 ELSE 80,
                << <<"Relevant approach with good keyword alignment.">> >> >>
         ELSE IF total > 0 /\ 100 * covered >= 15 * total
              THEN <<IF llm_verdict = "RELEVANT" THEN 90 ELSE 60,
                     << <<"Relevant approach (LLM verified).">> >> >>
              ELSE <<IF llm_verdict = "RELEVANT" THEN 80 ELSE 30,
                     << <<"LLM verified relevance, but keyword match is minimal.">> >> >>
    ELSE IF (total > 0 /\ 4 * covered >= total) \/ covered >= 2
         THEN <<75, << <<"Code appears relevant based on keyword match (",
                         ToString(covered), "matches).">> >> >>
         ELSE <<0, << <<"Irrelevant submission: Code does not address problem (Low match ratio:",
                        ToString(IF total > 0 THEN (100 * covered) \div total ELSE 0),
                        "%, Found", ToString(covered), "keywords).">> >> >>

\* _evaluate_approach_python
EvaluateApproachPython(agent, text, p, llm_verdict) ==
    IF text.parse = "SyntaxError"
    THEN [raised |-> "none", score |-> 0, agent |-> agent,
          feedback |-> << <<"Code has syntax errors. Review and fix them.">> >>]
    ELSE IF text.parse # "ok"
    THEN [raised |-> text.parse, score |-> 0, agent |-> agent, feedback |-> <<>>]
    ELSE LET problem_keywords == ProblemKeywords(p)
             covered_keywords == {w \in problem_keywords : w \in text.words}
             missing_keywords == {w \in problem_keywords : w \notin text.words}
             ka == KeywordApproach(Cardinality(covered_keywords),
                                   Cardinality(problem_keywords), llm_verdict)
         IN  [raised |-> "none", score |-> Min(ka[1], 100),
              agent |-> [agent EXCEPT !.has_missing = TRUE,
                                      !.last_missing_concepts = missing_keywords],
              feedback |-> ka[2]]

\* _evaluate_approach_cpp
EvaluateApproachCpp(agent, text, p, llm_verdict) ==
    LET problem_keywords == ProblemKeywords(p)
        covered_keywords == {w \in problem_keywords : w \in text.words}
        missing_keywords == {w \in problem_keywords : w \notin text.words}
        ka == KeywordApproach(Cardinality(covered_keywords),
                              Cardinality(problem_keywords), llm_verdict)
    IN  [raised |-> "none", score |-> Min(ka[1], 100),
         agent |-> [agent EXCEPT !.has_missing = TRUE,
                                 !.last_missing_concepts = missing_keywords],
         feedback |-> ka[2]]

\* _evaluate_approach
EvaluateApproach(agent, text, p, language, env) ==
    LET cr == CheckRelevance(agent.llm, env)
        asked == agent.llm.enabled
        llm_verdict == IF asked THEN cr.verdict ELSE "None"
        agent1 == IF asked
                  THEN [agent EXCEPT !.llm = cr.llm, !.has_verdict = TRUE,
                                     !.last_relevance_verdict = cr.verdict]
                  ELSE agent
        note == CASE llm_verdict = "PARTIAL" ->
                       << <<"WARN", "LLM found partial relevance. Proceeding with reduced scoring.">> >>
                  [] llm_verdict = "RELEVANT" ->
                       << <<"CHECK", "LLM verified submission is relevant to the problem.">> >>
                  [] OTHER -> <<>>
    IN  IF llm_verdict = "IRRELEVANT"
        THEN [raised |-> "none", score |-> 0, agent |-> agent1, asked |-> asked,
              feedback |-> << <<"WARN", "LLM determined code is irrelevant to the problem. Score: 0.">> >>]
        ELSE LET r == IF language = "python"
                      THEN EvaluateApproachPython(agent1, text, p, llm_verdict)
                      ELSE EvaluateApproachCpp(agent1, text, p, llm_verdict)
             IN  [raised |-> r.raised, score |-> r.score, agent |-> r.agent,
                  asked |-> asked, feedback |-> note \o r.feedback]

\* _evaluate_readability: <<score, feedback lines>>
EvaluateReadability(text, language) ==
    LET comment_lines == IF language = "python" THEN text.py_comments
                         ELSE text.cpp_comments
        s1 == IF text.long_lines = 0 THEN 60 ELSE 0
        f1 == IF text.long_lines = 0
              THEN << <<"Line length is appropriate for readability.">> >>
              ELSE << <<"ARROW", ToString(text.long_lines),
                        "lines exceed 100 characters. Break them into shorter lines.">> >>
        s2 == IF comment_lines > 0 THEN 40 ELSE 0
        f2 == IF comment_lines > 0
              THEN << <<"Code includes comments (", ToString(comment_lines), "found).">> >>
              ELSE << <<"ARROW", "Add comments to explain your logic.">> >>
    IN  <<Min(s1 + s2, 100), f1 \o f2>>

\* _evaluate_structure
EvaluateStructure(text, language) ==
    LET defs == IF language = "python" THEN text.py_defs ELSE text.cpp_defs
        s1 == IF defs > 0 THEN 60 ELSE 0
        f1 == IF defs > 0
              THEN << <<"Good modularization (", ToString(defs), "functions/classes).">> >>
              ELSE << <<"ARROW", "Consider breaking code into functions for reusability.">> >>
    IN  IF language = "python"
        THEN IF text.parse = "SyntaxError"
             THEN [raised |-> "none", score |-> 0, feedback |-> <<>>]
             ELSE IF text.parse # "ok"
             THEN [raised |-> text.parse, score |-> 0, feedback |-> <<>>]
             ELSE [raised |-> "none",
                   score |-> Min(s1 + (IF text.py_assign THEN 40 ELSE 0), 100),
                   feedback |-> f1 \o
                       (IF text.py_assign
                        THEN << <<"Code uses variable assignments (structured logic).">> >>
                        ELSE <<>>)]
        ELSE [raised |-> "none",
              score |-> Min(s1 + (IF text.cpp_ns THEN 40 ELSE 0), 100),
              feedback |-> f1 \o
                  (IF text.cpp_ns
                   THEN << <<"CHECK", "Code uses namespaces/guards (good C++ practice).">> >>
                   ELSE <<>>)]

\* _evaluate_effort
EvaluateEffort(text, language) ==
    LET code_lines == IF language = "python" THEN text.py_code_lines
                      ELSE text.cpp_code_lines
        s1 == IF code_lines > 5 THEN 60 ELSE IF code_lines > 0 THEN 30 ELSE 0
        f1 == IF code_lines > 5
              THEN << <<"Substantial code submission", "(", ToString(code_lines), "lines).">> >>
              ELSE IF code_lines > 0
                   THEN << <<"ARROW", "Your solution is brief. Consider adding more logic or cases.">> >>
                   ELSE <<>>
        control_flow == IF language = "python" THEN text.py_control ELSE text.cpp_control
        counted == IF language = "python" THEN text.parse = "ok" ELSE TRUE
        s2 == IF counted /\ control_flow > 0
              THEN (IF language = "python" THEN 40 ELSE 20) ELSE 0
        f2 == IF counted /\ control_flow > 0
              THEN << <<"CHECK", "Code includes control flow (", ToString(control_flow),
                        "conditions/loops).">> >>
              ELSE <<>>
    IN  IF language = "python" /\ text.parse \notin {"ok", "SyntaxError"}
        THEN [raised |-> text.parse, score |-> 0, feedback |-> <<>>]
        ELSE [raised |-> "none", score |-> Min(s1 + s2, 100), feedback |-> f1 \o f2]

RECURSIVE SumOver(_, _)
SumOver(S, f) ==
    IF S = {} THEN 0
    ELSE LET x == CHOOSE y \in S : TRUE IN f[x] + SumOver(S \ {x}, f)

\* The lines evaluate passes to the elaboration as deterministic findings.
\* A result dict whose score grows when the oracle elaborates.
ReturnDictWithBonus(score, max_score, feedback, llm_feedback) ==
    [score |-> IF llm_feedback # <<>> THEN score + 100 ELSE score,
     max_score |-> max_score,
     feedback |-> IF llm_feedback # <<>> THEN << <<SENTINEL>> >> \o llm_feedback
                  ELSE feedback]

\* The end of evaluate in both analyzers: "if llm_feedback: feedback =
\* ["LLM Explanation:"] + llm_feedback" and the dict that is returned.
ReturnDict(score, max_score, feedback, llm_feedback) ==
    [score |-> score, max_score |-> max_score,
     feedback |-> IF llm_feedback # <<>> THEN << <<SENTINEL>> >> \o llm_feedback
                  ELSE feedback]

Findings(feedback) ==
    SelectSeq(feedback, LAMBDA f : StartsWith(f, <<"CHECK">>) \/ StartsWith(f, <<"ARROW">>)
                                     \/ StartsWith(f, <<"CROSS">>))

\* The four scores without the relevance multiplier.
UngatedScores(approach_score, readability_raw, structure_raw, effort_raw) ==
    [approach |-> approach_score, readability |-> readability_raw,
     structure |-> structure_raw, effort |-> effort_raw]

\* The relevance multiplier of evaluate (lines 69-94) applied to the raw
\* scores.  approach_score / 60.0 is 0 or 1/2 here: the products are whole points.
GatedScores(approach_score, readability_raw, structure_raw, effort_raw) ==
    LET scale(raw) ==
            IF approach_score >= 60 THEN raw ELSE (raw * approach_score) \div 60
    IN  [approach |-> approach_score,
         readability |-> IF approach_score = 0 THEN Min(readability_raw, 10)
                         ELSE scale(readability_raw),
         structure |-> scale(structure_raw),
         effort |-> scale(effort_raw)]

\* The feedback of evaluate before the elaboration step (lines 60-97).
\* scores are points; raised names the exception that leaves evaluate.
CodeScoring(agent, text, ext, p, env) ==
    LET Gate(language, ap, rd, st, ef) ==
            [raised |-> IF ap.raised # "none" THEN ap.raised
                        ELSE IF st.raised # "none" THEN st.raised
                        ELSE ef.raised,
             agent |-> ap.agent, asked |-> ap.asked, language |-> language,
             scores |-> GatedScores(ap.score, rd[1], st.score, ef.score),
             feedback |-> ap.feedback \o rd[2] \o st.feedback \o ef.feedback \o
                 (IF ap.score = 0
                  THEN << <<"Evaluation Note: Non-relevant submission. Effort and structure rewards are withheld.">> >>
                  ELSE <<>>)]
        Score(language) ==
            Gate(language, EvaluateApproach(agent, text, p, language, env),
                 EvaluateReadability(text, language), EvaluateStructure(text, language),
                 EvaluateEffort(text, language))
    IN  Score(DetectLanguage(text, ext))

\* CodeEvaluationAgent.evaluate.  weights maps criterion names to hundredths.
\* Returns the exception raised or the result (score and max_score in
\* centipoints), the agent afterwards, and what was sent to the oracle.
CodeEvaluate(agent, text, ext, p, weights, env) ==
    LET total_score(scores) ==
            SumOver(DOMAIN weights,
                    [k \in DOMAIN weights |->
                        (IF k \in DOMAIN scores THEN scores[k] ELSE 0) * weights[k]])
        max_score == SumOver(DOMAIN weights, weights) * 100
        Elaborate(sc, elaborate, gen) ==
            IF sc.raised # "none"
            THEN [raised |-> sc.raised, agent |-> sc.agent,
                  relevance_calls |-> sc.agent.llm.relevance_calls - agent.llm.relevance_calls,
                  requests |-> <<>>, deterministic |-> <<>>, scores |-> sc.scores,
                  result |-> [score |-> 0, max_score |-> 0, feedback |-> <<>>]]
            ELSE [raised |-> "none",
                  agent |-> IF elaborate THEN [sc.agent EXCEPT !.llm = gen.llm] ELSE sc.agent,
                  relevance_calls |-> sc.agent.llm.relevance_calls - agent.llm.relevance_calls,
                  requests |-> IF elaborate
                               THEN <<[kind |-> "code", findings |-> Findings(sc.feedback),
                                       missing_concepts |-> sc.agent.last_missing_concepts,
                                       relevance_status |-> sc.agent.last_relevance_verdict]>>
                               ELSE <<>>,
                  deterministic |-> sc.feedback, scores |-> sc.scores,
                  result |-> ReturnDict(total_score(sc.scores), max_score, sc.feedback,
                                        IF elaborate THEN gen.lines ELSE <<>>)]
        Scored(sc) ==
            Elaborate(sc, sc.agent.llm.enabled, GenerateSemanticFeedback(sc.agent.llm, env))
    IN  Scored(CodeScoring(agent, text, ext, p, env))

-----------------------------------------------------------------------------
(* ContentEvaluationAgent (src/backend/core/agents/content_agent.py) *)

\* __init__
NewContentAgent(enabled, api_key, configure_ok) ==
    [llm |-> NewLLMService(enabled, api_key, configure_ok),
     has_missing |-> FALSE, last_missing_concepts |-> {},
     has_verdict |-> FALSE, last_relevance_verdict |-> "UNCERTAIN"]

\* A slice s[:n] of a list built from a set: some n of its elements.
TakeUpTo(S, n) ==
    IF Cardinality(S) <= n THEN S ELSE CHOOSE T \in SUBSET S : Cardinality(T) = n

TASK_STOPWORDS ==
    {"the", "a", "an", "and", "or", "but", "in", "on", "at", "to", "for",
     "of", "with", "from", "by", "as", "is", "was", "are", "were", "be",
     "been", "being", "have", "has", "had", "do", "does", "did", "will",
     "would", "should", "could", "may", "might", "must", "can", "this",
     "that", "these", "those", "your", "their", "our", "its", "his", "her",
     "make", "create", "provide", "include", "ensure", "allow", "enable",
     "support", "help", "need", "want", "give", "take", "show", "tell",
     "huge", "large", "small", "good", "bad", "best", "better", "more",
     "less", "most", "least", "very", "much", "many", "some", "all",
     "each", "every", "both", "either", "neither", "other", "another",
     "such", "same", "different", "new", "old", "first", "last", "next",
     "previous", "following", "above", "below", "between", "among",
     "expert", "hours", "challenge", "statement", "detailed", "report",
     "proposed", "solution", "plan", "problem"}

\* concept.endswith(('ing', 'ed', 'ly', 'tion', 'ment', 'ness')), for the words
\* the problem statements and references above are made of.
EndsWithGenericSuffix(w) == w \in {"function", "multiplication"}

TECHNICAL_TERMS == {"indexing", "embedding", "processing", "generation", "retrieval"}

\* _extract_task_concepts
ExtractTaskConcepts(p) ==
    LET words == {w \in ProblemWords(p) : Len(w) >= 4}
        task_concepts == {w \in words : w \notin TASK_STOPWORDS}
        domain_terms == {c \in task_concepts :
                            IF EndsWithGenericSuffix(c) THEN c \in TECHNICAL_TERMS ELSE TRUE}
    IN  TakeUpTo(domain_terms, 12)

\* _extract_key_concepts; rubric_in is the "rubric" entry of the agent's input.
ExtractKeyConcepts(rubric_in, r, p) ==
    LET from_rubric ==
            (IF "concepts" \in DOMAIN rubric_in THEN rubric_in.concepts ELSE {})
            \cup (IF "criteria" \in DOMAIN rubric_in THEN rubric_in.criteria ELSE {})
        from_reference ==
            IF r # "none"
            THEN TakeUpTo({w \in ReferenceWords(r) : Len(w) >= 4}, 10)
            ELSE {}
        concepts == from_rubric \cup from_reference
    IN  IF concepts = {} /\ p # "none" THEN ExtractTaskConcepts(p) ELSE concepts

\* A coverage score that never reaches 0: the lowest band gives 20.
EvaluateConceptCoverageFloor(agent, text, key_concepts) ==
    [score |-> IF key_concepts = {} THEN 60 ELSE 20, agent |-> agent,
     feedback |-> << <<"ARROW", "Low coverage">> >>]

\* _evaluate_concept_coverage: score, feedback and the agent afterwards.
EvaluateConceptCoverage(agent, text, key_concepts) ==
    IF key_concepts = {}
    THEN [score |-> 60, agent |-> agent,
          feedback |-> << <<"INFO", "No key concepts specified for comparison.">> >>]
    ELSE
    LET covered_concepts == {c \in key_concepts : c \in text.words}
        missing_concepts == {c \in key_concepts : c \notin text.words}
        c == Cardinality(covered_concepts)
        n == Cardinality(key_concepts)
        counts == <<"(", ToString(c), "/", ToString(n), "concepts).">>
        off == ~agent.llm.enabled
        band == IF 100 * c >= 80 * n THEN 90
                ELSE IF 100 * c >= 60 * n THEN 70
                ELSE IF 100 * c >= 40 * n THEN 50
                ELSE IF 100 * c >= 20 * n THEN 20
                ELSE 0
        lines ==
            CASE band = 90 ->
                   << <<"CHECK", "Excellent concept coverage">> \o counts >> \o
                   (IF missing_concepts # {} /\ off
                    THEN << <<"ARROW", "Missing:", ToString(TakeUpTo(missing_concepts, 5))>> >>
                    ELSE <<>>)
              [] band = 70 ->
                   << <<"ARROW", "Good coverage">> \o counts >> \o
                   (IF off
                    THEN << <<"ARROW", "Missing:", ToString(TakeUpTo(missing_concepts, 5))>> >>
                    ELSE <<>>)
              [] band = 50 ->
                   << <<"ARROW", "Partial coverage">> \o counts >> \o
                   (IF off
                    THEN << <<"ARROW", "Missing key concepts:",
                              ToString(TakeUpTo(missing_concepts, 7))>> >>
                    ELSE <<>>)
              [] band = 20 -> << <<"ARROW", "Low coverage">> \o counts >>
              [] OTHER ->
                   << <<"CROSS", "Very low concept coverage">> \o counts >> \o
                   (IF off
                    THEN << <<"CROSS", "Missing critical concepts:",
                              ToString(TakeUpTo(missing_concepts, 10))>> >>
                    ELSE <<>>)
    IN  [score |-> Min(band, 100),
         agent |-> [agent EXCEPT !.has_missing = TRUE,
                                 !.last_missing_concepts = missing_concepts],
         feedback |-> lines]

\* The alignment score taken from the weight the rubric gives the criterion.
EvaluateAlignmentByWeight(text, rubric_in) ==
    IF "weights" \in DOMAIN rubric_in /\ "alignment" \in DOMAIN rubric_in.weights
    THEN <<Min(50 + rubric_in.weights["alignment"], 100), <<>> >>
    ELSE <<50, <<>> >>

\* _evaluate_alignment: <<score, feedback lines>>
EvaluateAlignment(text, rubric_in) ==
    LET has_obj == "learning_objectives" \in DOMAIN rubric_in
        matched == IF has_obj
                   THEN Cardinality({o \in rubric_in.learning_objectives : o \in text.words})
                   ELSE 0
        has_sec == "required_sections" \in DOMAIN rubric_in
        n_sec == IF has_sec THEN Cardinality(rubric_in.required_sections) ELSE 0
        matched_sections ==
            IF has_sec
            THEN Cardinality({s \in rubric_in.required_sections : s \in text.words})
            ELSE 0
        s1 == IF has_obj /\ matched > 0 THEN 30 ELSE 0
        f1 == IF ~has_obj THEN <<>>
              ELSE IF matched > 0
                   THEN << <<"CHECK", "Addresses", ToString(matched), "learning objectives.">> >>
                   ELSE << <<"ARROW", "Content should align with stated learning objectives.">> >>
        s2 == IF has_sec /\ 10 * matched_sections >= 7 * n_sec THEN 20 ELSE 0
        f2 == IF ~has_sec THEN <<>>
              ELSE IF 10 * matched_sections >= 7 * n_sec
                   THEN << <<"CHECK", "Includes most required sections (",
                             ToString(matched_sections), "/", ToString(n_sec), ").">> >>
                   ELSE << <<"ARROW", "Missing some required sections.", "Found",
                             ToString(matched_sections), "/", ToString(n_sec), ".">> >>
    IN  IF DOMAIN rubric_in = {} THEN <<50, <<>> >>
        ELSE <<Min(50 + s1 + s2, 100), f1 \o f2>>

\* _evaluate_logical_flow: <<score, feedback lines>>
EvaluateLogicalFlow(text) ==
    LET s1 == IF text.paragraphs > 3 THEN 25 ELSE IF text.paragraphs > 1 THEN 15 ELSE 0
        f1 == IF text.paragraphs > 3
              THEN << <<"CHECK", "Well-organized (", ToString(text.paragraphs),
                        "distinct sections).">> >>
              ELSE IF text.paragraphs > 1
                   THEN << <<"ARROW", "Consider organizing content into more distinct sections.">> >>
                   ELSE << <<"ARROW", "Break content into multiple paragraphs for clarity.">> >>
        \* avg_sentence_length is sentence_words / sentences, 0 without sentences
        n == text.sentences
        w == IF n > 0 THEN text.sentence_words ELSE 0
        d == IF n > 0 THEN n ELSE 1
        ideal == 10 * d < w /\ w < 25 * d
        s2 == IF ideal THEN 15 ELSE 0
        f2 == IF ideal THEN << <<"CHECK", "Sentence structure is clear and varied.">> >>
              ELSE IF w > 30 * d
                   THEN << <<"ARROW", "Some sentences are too long. Break them for clarity.">> >>
                   ELSE IF w < 5 * d
                        THEN << <<"ARROW", "Sentences are too short. Expand with more detail.">> >>
                        ELSE <<>>
        s3 == IF text.transitions >= 3 THEN 10 ELSE 0
        f3 == IF text.transitions >= 3
              THEN << <<"CHECK", "Good use of transitions for logical flow.">> >>
              ELSE IF text.transitions > 0
                   THEN << <<"ARROW", "Add more transition words to improve flow between ideas.">> >>
                   ELSE <<>>
    IN  <<Min(50 + s1 + s2 + s3, 100), f1 \o f2 \o f3>>

\* _evaluate_completeness: <<score, feedback lines>>
EvaluateCompleteness(text) ==
    LET s1 == IF text.word_count > 300 THEN 30
              ELSE IF text.word_count > 150 THEN 15 ELSE 0
        f1 == IF text.word_count > 300
              THEN << <<"CHECK", "Substantial content (", ToString(text.word_count), "words).">> >>
              ELSE IF text.word_count > 150
                   THEN << <<"ARROW", "Content is moderate (", ToString(text.word_count),
                             "words). Add more detail.">> >>
                   ELSE << <<"ARROW", "Content is brief (", ToString(text.word_count),
                             "words). Expand with examples and explanations.">> >>
        s2 == IF text.has_examples THEN 10 ELSE 0
        f2 == IF text.has_examples
              THEN << <<"CHECK", "Includes examples or specific details.">> >>
              ELSE << <<"ARROW", "Add concrete examples to support your concepts.">> >>
        s3 == IF text.has_reasoning THEN 10 ELSE 0
        f3 == IF text.has_reasoning
              THEN << <<"CHECK", "Includes reasoning or evidence.">> >>
              ELSE << <<"ARROW", "Add reasoning or evidence to strengthen claims.">> >>
    IN  <<Min(50 + s1 + s2 + s3, 100), f1 \o f2 \o f3>>

\* The weights evaluate applies (hundredths).
CONTENT_WEIGHTS == [coverage |-> 60, alignment |-> 25, flow |-> 8, completeness |-> 7]

\* The plagiarism heuristic of evaluate: similarity > 0.6 with the problem statement.
IsPlagiarism(text, p) ==
    IF p # "none" /\ text.size > 0 THEN text.similarity[p] > 60 ELSE FALSE

\* The weighted total without the cap of evaluate's "if is_plagiarism" statement.
ContentTotalUncapped(scores, is_plagiarism) ==
    SumOver(DOMAIN CONTENT_WEIGHTS,
            [k \in DOMAIN CONTENT_WEIGHTS |-> scores[k] * CONTENT_WEIGHTS[k]])

\* The weighted total of evaluate (centipoints), capped when plagiarism is flagged.
ContentTotal(scores, is_plagiarism) ==
    LET total_score == SumOver(DOMAIN CONTENT_WEIGHTS,
                           [k \in DOMAIN CONTENT_WEIGHTS |-> scores[k] * CONTENT_WEIGHTS[k]])
    IN  IF is_plagiarism THEN Min(total_score, 2000) ELSE total_score

\* ContentEvaluationAgent.evaluate
ContentEvaluate(agent, text, rubric_in, r, p, env) ==
    LET key_concepts == ExtractKeyConcepts(rubric_in, r, p)
        asked == agent.llm.enabled
        cr == CheckRelevance(agent.llm, env)
        verdict == IF asked THEN cr.verdict ELSE "None"
        agent1 == IF asked
                  THEN [agent EXCEPT !.llm = cr.llm, !.has_verdict = TRUE,
                                     !.last_relevance_verdict = cr.verdict]
                  ELSE agent
        fb0 == CASE verdict = "IRRELEVANT" ->
                      << <<"WARN", "LLM determined content is irrelevant to the prompt. Score: 0.">> >>
                 [] verdict = "PARTIAL" ->
                      << <<"WARN", "LLM found partial relevance. Proceeding with reduced scoring.">> >>
                 [] verdict = "RELEVANT" ->
                      << <<"CHECK", "LLM verified content is relevant to the prompt.">> >>
                 [] OTHER -> <<>>
        is_plagiarism == IsPlagiarism(text, p)
        fb1 == fb0 \o
               (IF is_plagiarism
                THEN << <<"WARN", "Content is too similar to the problem statement (",
                          ToString(text.similarity[p]), "% match). Score penalized.">> >>
                ELSE <<>>)
        agent2 == IF is_plagiarism
                  THEN [agent1 EXCEPT !.has_verdict = TRUE,
                                      !.last_relevance_verdict = "IRRELEVANT"]
                  ELSE agent1
        cov == EvaluateConceptCoverage(agent2, text, key_concepts)
        fb2 == fb1 \o cov.feedback
        al == EvaluateAlignment(text, rubric_in)
        fl == EvaluateLogicalFlow(text)
        co == EvaluateCompleteness(text)
        scores == [coverage |-> cov.score, alignment |-> al[1], flow |-> fl[1],
                   completeness |-> co[1]]
        fb3 == fb2 \o al[2] \o fl[2] \o co[2]
        max_score == SumOver(DOMAIN CONTENT_WEIGHTS, CONTENT_WEIGHTS) * 100
        Finish(ag, det, findings, missing, status, score, max, stage) ==
            LET gen == GenerateSemanticFeedback(ag.llm, env)
                \* the IRRELEVANT branch calls the elaboration without testing enabled again
                sent == IF stage = "irrelevant" THEN TRUE ELSE ag.llm.enabled
            IN  [raised |-> "none",
                 agent |-> IF sent THEN [ag EXCEPT !.llm = gen.llm] ELSE ag,
                 relevance_calls |-> ag.llm.relevance_calls - agent.llm.relevance_calls,
                 requests |-> IF sent
                              THEN << [kind |-> "content", findings |-> findings,
                                       missing_concepts |-> missing,
                                       relevance_status |-> status] >>
                              ELSE <<>>,
                 deterministic |-> det,
                 stage |-> stage,
                 is_plagiarism |-> IF stage = "irrelevant" THEN FALSE ELSE is_plagiarism,
                 scores |-> IF stage = "final" THEN scores
                            ELSE [coverage |-> 0, alignment |-> 0, flow |-> 0,
                                  completeness |-> 0],
                 result |-> ReturnDict(score, max, det, IF sent THEN gen.lines ELSE <<>>)]
    IN  IF verdict = "IRRELEVANT"
        THEN Finish(agent1, fb0, fb0, {}, "IRRELEVANT", 0, 10000, "irrelevant")
        ELSE IF cov.score = 0
        THEN LET fb == fb2 \o << <<"WARN", "Irrelevant submission: No key concepts from the prompt were found.">> >>
             IN  Finish(cov.agent, fb, fb, cov.agent.last_missing_concepts, "IRRELEVANT",
                        0, 10000, "gate")
        ELSE Finish(cov.agent, fb3, Findings(fb3), cov.agent.last_missing_concepts,
                    cov.agent.last_relevance_verdict,
                    ContentTotal(scores, is_plagiarism), max_score, "final")

-----------------------------------------------------------------------------
(* Rubric (src/backend/core/utils/rubric.py).  A rubric is its "dimensions" *)
(* dict in insertion order: a sequence of [name, config], where config may  *)
(* lack "weight" or "max_score"; weights are hundredths.                    *)

Dim(name, config) == [name |-> name, config |-> config]

DefaultCodeCriteria ==
    [approach |-> [weight |-> 40, max_score |-> 100],
     readability |-> [weight |-> 20, max_score |-> 100],
     structure |-> [weight |-> 20, max_score |-> 100],
     effort |-> [weight |-> 20, max_score |-> 100]]

DefaultContentCriteria ==
    [coverage |-> [weight |-> 35, max_score |-> 100],
     alignment |-> [weight |-> 25, max_score |-> 100],
     flow |-> [weight |-> 20, max_score |-> 100],
     completeness |-> [weight |-> 20, max_score |-> 100]]

DEFAULT_RUBRIC ==
    <<Dim("code", [weight |-> 60, max_score |-> 100, criteria |-> DefaultCodeCriteria]),
      Dim("content", [weight |-> 40, max_score |-> 100, criteria |-> DefaultContentCriteria])>>

\* Caller-supplied rubrics: a content-only weighting, unvalidated criteria
\* weights (one negative, one missing), and rubrics validate must refuse.
ContentOnlyRubric ==
    <<Dim("code", [weight |-> 0, max_score |-> 100, criteria |-> DefaultCodeCriteria]),
      Dim("content", [weight |-> 100, max_score |-> 100, criteria |-> DefaultContentCriteria])>>

OddCriteriaRubric ==
    <<Dim("code", [weight |-> 60, max_score |-> 100,
                   criteria |-> [approach |-> [weight |-> -100, max_score |-> 100],
                                 readability |-> [weight |-> 100, max_score |-> 100],
                                 structure |-> [weight |-> 75, max_score |-> 100],
                                 effort |-> [max_score |-> 100]]]),
      Dim("content", [weight |-> 40, max_score |-> 100, criteria |-> DefaultContentCriteria])>>

OverweightRubric ==
    <<Dim("code", [weight |-> 60, max_score |-> 100, criteria |-> DefaultCodeCriteria]),
      Dim("content", [weight |-> 60, max_score |-> 100, criteria |-> DefaultContentCriteria])>>

CodeOnlyDimensionRubric ==
    <<Dim("code", [weight |-> 100, max_score |-> 100, criteria |-> DefaultCodeCriteria])>>

\* The default rubric with the content dimension written first.
ContentFirstRubric ==
    <<Dim("content", [weight |-> 40, max_score |-> 100, criteria |-> DefaultContentCriteria]),
      Dim("code", [weight |-> 60, max_score |-> 100, criteria |-> DefaultCodeCriteria])>>

\* A rubric with a third dimension after code and content.
ThreeDimensionRubric ==
    <<Dim("code", [weight |-> 50, max_score |-> 100, criteria |-> DefaultCodeCriteria]),
      Dim("content", [weight |-> 30, max_score |-> 100, criteria |-> DefaultContentCriteria]),
      Dim("participation", [weight |-> 20, max_score |-> 10, criteria |-> <<>>])>>

RubricDicts == {DEFAULT_RUBRIC, ContentOnlyRubric, OddCriteriaRubric, OverweightRubric,
                CodeOnlyDimensionRubric, ContentFirstRubric, ThreeDimensionRubric}

\* float("nan"), which json.load reads from the token NaN: a number that is
\* not in the range of the weights and scores (hundredths) used here.
NaN == -1000000000

IsNaN(x) == x = NaN

\* The float comparisons and sum: a comparison with NaN is false, a sum with
\* NaN is NaN.
NumLess(a, b) == ~IsNaN(a) /\ ~IsNaN(b) /\ a < b

NumLeq(a, b) == ~IsNaN(a) /\ ~IsNaN(b) /\ a <= b

NumAdd(a, b) == IF IsNaN(a) \/ IsNaN(b) THEN NaN ELSE a + b

RECURSIVE NumSum(_)
NumSum(s) == IF s = <<>> THEN 0 ELSE NumAdd(Head(s), NumSum(Tail(s)))

RECURSIVE DimensionsError(_)
DimensionsError(dims) ==
    IF dims = <<>> THEN "none"
    ELSE LET c == Head(dims).config IN
         IF "weight" \notin DOMAIN c THEN "ValueError"
         ELSE IF NumLess(c.weight, 0) \/ NumLess(100, c.weight) THEN "ValueError"
         ELSE IF "max_score" \notin DOMAIN c THEN "ValueError"
         ELSE IF NumLeq(c.max_score, 0) THEN "ValueError"
         ELSE DimensionsError(Tail(dims))

\* Rubric.validate: "none", or the error it raises.
Validate(dims) ==
    LET found_dimensions == {dims[i].name : i \in DOMAIN dims}
        total_weight == NumSum([i \in DOMAIN dims |->
                                   IF "weight" \in DOMAIN dims[i].config
                                   THEN dims[i].config.weight ELSE 0])
    IN  IF ~({"code", "content"} \subseteq found_dimensions) THEN "ValueError"
        ELSE IF DimensionsError(dims) # "none" THEN DimensionsError(dims)
        ELSE IF ~IsNaN(total_weight) /\ Abs(total_weight - 100) > 1 THEN "ValueError"
        ELSE "none"

\* Rubric.get_weights, as list(weights.values())
RubricWeights(dims) == [i \in DOMAIN dims |-> dims[i].config.weight]

\* Rubric.get_criteria
GetCriteria(dims, dimension) ==
    LET i == CHOOSE j \in DOMAIN dims : dims[j].name = dimension
    IN  IF "criteria" \in DOMAIN dims[i].config THEN dims[i].config.criteria
        ELSE <<>>

\* {k: v.get("weight", 0.25) for k, v in criteria.items()} of the orchestrator
CriteriaWeights(criteria) ==
    [k \in DOMAIN criteria |->
        IF "weight" \in DOMAIN criteria[k] THEN criteria[k].weight ELSE 25]

-----------------------------------------------------------------------------
(* Orchestrator (src/backend/core/controller/orchestrator.py) and the file  *)
(* parser it reads the folder with (src/backend/core/utils/file_parser.py). *)

MaxBatch == 2

ASSIGNMENT_TYPES == {"code", "content", "mixed"}

\* get_student_name_from_filename
StudentName(file) == file.stem \o "_Result"

FileName(file) == file.stem \o "." \o file.ext

\* read_folder: every supported file of the folder (read_file accepts .py, .txt, .pdf).
ReadFolder(folder) == {f \in folder : f.ext \in {"py", "txt", "pdf"}}

\* read_submissions_by_type
ReadSubmissionsByType(folder) ==
    [code |-> {f \in ReadFolder(folder) : f.ext = "py"},
     text |-> {f \in ReadFolder(folder) : f.ext \in {"txt", "pdf"}}]

FilesNamed(names) == {f \in Files : FileName(f) \in names}

\* The submission folders tried: the empty one, one per file, and some larger ones.
Folders ==
    {F \in {{}} \cup {{f} : f \in Files}
            \cup {FilesNamed({"alice.py", "carol.py"}), FilesNamed({"alice.py", "bob.py"}),
                  FilesNamed({"alice.py", "alice.txt"}), FilesNamed({"alice.txt", "bob.txt"}),
                  FilesNamed({"dave.py", "dave.txt"}), FilesNamed({"frank.py", "erin.txt"}),
                  FilesNamed({"carol.py", "bob.txt"}),
                  FilesNamed({"alice.py", "carol.py", "alice.txt"})} :
        Cardinality(F) <= MaxBatch}

\* What the oracle may answer during one analyzer call.
Elaborations ==
    {<<>>,
     << <<"**Summary**: a recursive factorial.">>,
        <<"CHECK", "Handles the base case.">> >>}

Envs(agent) ==
    IF ~agent.llm.enabled
    THEN {[verdict |-> "UNCERTAIN", elaboration |-> <<>>]}
    ELSE {[verdict |-> v, elaboration |-> e] : v \in Verdicts, e \in Elaborations}

\* The record of one analyzer call kept for the properties below.
CallRecord(kind, file, env, o) ==
    [kind |-> kind, file |-> file, env |-> env, out |-> o]

\* The analyzer input the orchestrator prepares and the call it makes.
RunCodeAgent(file, env) ==
    CodeEvaluate(code_agent, TextOf(file.text), file.ext, problem,
                 CriteriaWeights(GetCriteria(rubric, "code")), env)

RunContentAgent(file, env) ==
    ContentEvaluate(content_agent, TextOf(file.text),
                    [weights |-> CriteriaWeights(GetCriteria(rubric, "content"))],
                    reference, problem, env)

Put(map, key, value) == [k \in DOMAIN map \cup {key} |-> IF k = key THEN value ELSE map[k]]

Init ==
    /\ rubric \in {r \in RubricDicts : Validate(r) = "none"}
    /\ \E e \in {<<FALSE, FALSE, TRUE>>, <<TRUE, TRUE, TRUE>>,
                  <<TRUE, FALSE, TRUE>>, <<TRUE, TRUE, FALSE>>} :
          /\ code_agent = NewCodeAgent(e[1], e[2], e[3])
          /\ content_agent = NewContentAgent(e[1], e[2], e[3])
    /\ pc = "idle"
    /\ assignment_type = "none"
    /\ problem = "none"
    /\ reference = "none"
    /\ todo = {}
    /\ batch = [code |-> {}, text |-> {}]
    /\ results = <<>>
    /\ error = "none"
    /\ call = <<>>
    /\ arg = <<>>
    /\ out = <<>>

\* evaluate_submissions up to the first loop iteration: the type check and the read.
EvaluateSubmissions ==
    /\ pc = "idle"
    /\ \E t \in ASSIGNMENT_TYPES \cup {"essay"}, F \in Folders,
          pr \in {<<"none", "none">>, <<"p1", "none">>, <<"p1", "r1">>, <<"p2", "none">>} :
          /\ assignment_type' = t
          /\ problem' = pr[1]
          /\ reference' = pr[2]
          /\ IF t \notin ASSIGNMENT_TYPES
             THEN /\ pc' = "raised"
                  /\ error' = "ValueError"
                  /\ UNCHANGED <<batch, todo>>
             ELSE /\ pc' = "running"
                  /\ error' = "none"
                  /\ batch' = IF t = "mixed" THEN ReadSubmissionsByType(F)
                              ELSE [code |-> ReadFolder(F), text |-> {}]
                  /\ todo' = IF t = "mixed"
                             THEN {StudentName(f) : f \in ReadFolder(F)}
                             ELSE ReadFolder(F)
    /\ results' = <<>>
    /\ UNCHANGED <<rubric, code_agent, content_agent, call, arg, out>>

\* One iteration of the loop of _evaluate_code_submissions.
EvaluateCodeSubmission ==
    /\ pc = "running" /\ assignment_type = "code"
    /\ \E file \in todo : \E env \in Envs(code_agent) :
          \E o \in {RunCodeAgent(file, env)} :
          \E final_result \in {AggregatorEvaluate(<<o.result>>, <<100>>)} :
          \E failed \in {IF o.raised # "none" THEN o.raised ELSE final_result.raised} :
              /\ code_agent' = o.agent
              /\ call' = <<CallRecord("code", file, env, [o EXCEPT !.agent = <<>>])>>
              /\ IF failed # "none"
                 THEN /\ pc' = "raised"
                      /\ error' = failed
                      /\ UNCHANGED <<results, todo>>
                 ELSE /\ results' = Put(results, StudentName(file),
                                        [file |-> FileName(file), assignment_type |-> "code",
                                         final_score |-> final_result.final_score,
                                         max_score |-> final_result.max_score,
                                         combined_feedback |-> final_result.combined_feedback])
                      /\ todo' = todo \ {file}
                      /\ UNCHANGED <<pc, error>>
    /\ UNCHANGED <<rubric, content_agent, assignment_type, problem, reference, batch, arg, out>>

\* One iteration of the loop of _evaluate_content_submissions.
EvaluateContentSubmission ==
    /\ pc = "running" /\ assignment_type = "content"
    /\ \E file \in todo : \E env \in Envs(content_agent) :
          \E o \in {RunContentAgent(file, env)} :
          \E final_result \in {AggregatorEvaluate(<<o.result>>, <<100>>)} :
          \E failed \in {IF o.raised # "none" THEN o.raised ELSE final_result.raised} :
              /\ content_agent' = o.agent
              /\ call' = <<CallRecord("content", file, env, [o EXCEPT !.agent = <<>>])>>
              /\ IF failed # "none"
                 THEN /\ pc' = "raised"
                      /\ error' = failed
                      /\ UNCHANGED <<results, todo>>
                 ELSE /\ results' = Put(results, StudentName(file),
                                        [file |-> FileName(file), assignment_type |-> "content",
                                         final_score |-> final_result.final_score,
                                         max_score |-> final_result.max_score,
                                         combined_feedback |-> final_result.combined_feedback])
                      /\ todo' = todo \ {file}
                      /\ UNCHANGED <<pc, error>>
    /\ UNCHANGED <<rubric, code_agent, assignment_type, problem, reference, batch, arg, out>>

\* One iteration of the loop of _evaluate_mixed_submissions: one student.
\* cf and tf hold the first matching file of each dict, if any.
EvaluateMixedStudent ==
    /\ pc = "running" /\ assignment_type = "mixed"
    /\ \E student_name \in todo :
          LET code_files == {f \in batch.code : StudentName(f) = student_name}
              text_files == {f \in batch.text : StudentName(f) = student_name}
          IN
          \E cf \in (IF code_files = {} THEN {<<>>} ELSE {<<f>> : f \in code_files}),
             tf \in (IF text_files = {} THEN {<<>>} ELSE {<<f>> : f \in text_files}) :
          \E cenv \in (IF cf = <<>> THEN {<<>>} ELSE {<<e>> : e \in Envs(code_agent)}),
             tenv \in (IF tf = <<>> THEN {<<>>} ELSE {<<e>> : e \in Envs(content_agent)}) :
          \E co \in {IF cf = <<>> THEN <<>> ELSE <<RunCodeAgent(cf[1], cenv[1])>>} :
          \E code_failed \in {co # <<>> /\ co[1].raised # "none"} :
          \E to \in {IF tf = <<>> \/ code_failed THEN <<>>
                     ELSE <<RunContentAgent(tf[1], tenv[1])>>} :
          \E analyzer_failed \in {IF code_failed THEN co[1].raised
                                  ELSE IF to # <<>> THEN to[1].raised ELSE "none"} :
          \E agent_outputs \in {[i \in DOMAIN (co \o to) |-> (co \o to)[i].result]} :
          \E final_result \in {AggregatorEvaluate(agent_outputs, RubricWeights(rubric))} :
          \E failed \in {IF analyzer_failed # "none" THEN analyzer_failed
                         ELSE IF agent_outputs # <<>> THEN final_result.raised ELSE "none"} :
              /\ code_agent' = IF co = <<>> THEN code_agent ELSE co[1].agent
              /\ content_agent' = IF to = <<>> THEN content_agent ELSE to[1].agent
              /\ call' = (IF co = <<>> THEN <<>>
                          ELSE <<CallRecord("code", cf[1], cenv[1],
                                            [co[1] EXCEPT !.agent = <<>>])>>)
                         \o (IF to = <<>> THEN <<>>
                             ELSE <<CallRecord("content", tf[1], tenv[1],
                                               [to[1] EXCEPT !.agent = <<>>])>>)
              /\ IF failed # "none"
                 THEN /\ pc' = "raised"
                      /\ error' = failed
                      /\ UNCHANGED <<results, todo>>
                 ELSE /\ results' =
                            IF agent_outputs # <<>>
                            THEN Put(results, student_name,
                                     [assignment_type |-> "mixed",
                                      agent_count |-> Len(agent_outputs),
                                      final_score |-> final_result.final_score,
                                      max_score |-> final_result.max_score,
                                      combined_feedback |-> final_result.combined_feedback])
                            ELSE results
                      /\ todo' = todo \ {student_name}
                      /\ UNCHANGED <<pc, error>>
    /\ UNCHANGED <<rubric, assignment_type, problem, reference, batch, arg, out>>

\* The loop is over: evaluate_submissions returns the result map.
Return ==
    /\ pc = "running" /\ todo = {}
    /\ pc' = "returned"
    /\ UNCHANGED <<rubric, code_agent, content_agent, assignment_type, problem, reference,
                   todo, batch, results, error, call, arg, out>>

Next ==
    \/ EvaluateSubmissions
    \/ EvaluateCodeSubmission
    \/ EvaluateContentSubmission
    \/ EvaluateMixedStudent
    \/ Return

Spec == Init /\ [][Next]_vars

-----------------------------------------------------------------------------
(* The aggregator's pure functions on their own: the argument is drawn in   *)
(* the initial state and one step applies the function.  The orchestrator   *)
(* stays as constructed.                                                    *)

Constructed ==
    /\ rubric = DEFAULT_RUBRIC
    /\ code_agent = NewCodeAgent(FALSE, FALSE, TRUE)
    /\ content_agent = NewContentAgent(FALSE, FALSE, TRUE)
    /\ pc = "idle"
    /\ assignment_type = "none"
    /\ problem = "none"
    /\ reference = "none"
    /\ todo = {}
    /\ batch = [code |-> {}, text |-> {}]
    /\ results = <<>>
    /\ error = "none"
    /\ call = <<>>

\* Weighted sums in [0, 100], in hundredths of a point.
ScoreGrid == {0, 1000, 2000, 3000, 3600, 3637, 3900, 3990, 4000, 4100, 5000, 5715,
              5900, 5999, 6000, 6100, 6299, 7000, 10000}

InitCurve ==
    /\ Constructed
    /\ \E a, b \in ScoreGrid : a <= b /\ arg = <<Frac(a, 100), Frac(b, 100)>>
    /\ out = <<>>

\* _apply_learning_oriented_normalization applied to both arguments.
NormalizeBoth ==
    /\ out = <<>>
    /\ out' = <<ApplyLearningOrientedNormalization(arg[1]),
                ApplyLearningOrientedNormalization(arg[2])>>
    /\ UNCHANGED <<rubric, code_agent, content_agent, pc, assignment_type, problem,
                   reference, todo, batch, results, error, call, arg>>

SpecCurve == InitCurve /\ [][NormalizeBoth]_vars

MaxFeedback == 3

FeedbackLines ==
    {<<SENTINEL>>, <<"**Summary**: a recursive factorial.">>,
     <<"CHECK", "Handles the base case.">>, <<"ARROW", "Add comments.">>,
     <<"INFO", "No problem statement was given.">>,
     <<"CROSS", "Very low concept coverage.">>,
     <<"[", "Note", "]", "submitted late.">>, <<"##", "Summary">>}

FeedbackLists == UNION {[1..n -> FeedbackLines] : n \in 0..MaxFeedback}

InitCombine ==
    /\ Constructed
    /\ \E feedback_list \in FeedbackLists : arg = <<feedback_list>>
    /\ out = <<>>

\* _combine_feedback applied to the list, and again to its own result.
CombineTwice ==
    /\ out = <<>>
    /\ out' = <<CombineFeedback(arg[1]), CombineFeedback(CombineFeedback(arg[1]))>>
    /\ UNCHANGED <<rubric, code_agent, content_agent, pc, assignment_type, problem,
                   reference, todo, batch, results, error, call, arg>>

SpecCombine == InitCombine /\ [][CombineTwice]_vars

-----------------------------------------------------------------------------
(* _get_weights on its own: a supplied weight list and the number of        *)
(* analyzer outputs are drawn in the initial state and one step applies it. *)

\* The longest weight list supplied and the largest number of outputs.
MaxWeights == 3

MaxAgents == 3

\* Weights in [0, 1], in hundredths.
WeightGrid == {0, 25, 40, 50, 60, 100}

WeightLists == UNION {[1..n -> WeightGrid] : n \in 0..MaxWeights}

InitWeights ==
    /\ Constructed
    /\ \E weights \in WeightLists, num_agents \in 1..MaxAgents : arg = <<weights, num_agents>>
    /\ out = <<>>

\* _get_weights({"weights": weights}, num_agents)
ApplyGetWeights ==
    /\ out = <<>>
    /\ out' = <<GetWeights(arg[1], arg[2])>>
    /\ UNCHANGED <<rubric, code_agent, content_agent, pc, assignment_type, problem,
                   reference, todo, batch, results, error, call, arg>>

SpecWeights == InitWeights /\ [][ApplyGetWeights]_vars

-----------------------------------------------------------------------------
(* AggregatorAgent.evaluate on its own: the analyzer outputs and the weight *)
(* list are drawn in the initial state and one step aggregates them.        *)

\* Analyzer outputs with 0 <= score <= max_score, in centipoints.
AgentOutputs ==
    {[score |-> s, max_score |-> 10000, feedback |-> <<>>] : s \in {0, 5000, 10000}}

AgentOutputLists == UNION {[1..n -> AgentOutputs] : n \in 1..MaxAgents}

InitAggregate ==
    /\ Constructed
    /\ \E agent_outputs \in AgentOutputLists, weights \in WeightLists :
          arg = <<agent_outputs, weights>>
    /\ out = <<>>

\* evaluate({"agent_outputs": agent_outputs, "rubric": {"weights": weights}})
ApplyEvaluate ==
    /\ out = <<>>
    /\ out' = <<AggregatorEvaluate(arg[1], arg[2])>>
    /\ UNCHANGED <<rubric, code_agent, content_agent, pc, assignment_type, problem,
                   reference, todo, batch, results, error, call, arg>>

SpecAggregate == InitAggregate /\ [][ApplyEvaluate]_vars

-----------------------------------------------------------------------------
(* Rubric.__init__ on its own: the rubric dict is drawn in the initial      *)
(* state and one step constructs the Rubric.                                *)

\* The dimension configs tried: weight and max_score absent, in and out of
\* range, and NaN.
DimConfigs ==
    {[max_score |-> s] : s \in {0, 100, NaN}}
    \cup {[weight |-> w] : w \in {40, 60}}
    \cup {[weight |-> w, max_score |-> s] :
             w \in {-10, 0, 40, 60, 100, 110, NaN}, s \in {0, 100, NaN}}

\* The rubric dicts tried: code and content, one of them alone, and both with
\* a third dimension.
RubricInputs ==
    {<<Dim("code", c), Dim("content", t)>> : c \in DimConfigs, t \in DimConfigs}
    \cup {<<Dim(n, c)>> : n \in {"code", "content"}, c \in DimConfigs}
    \cup {<<Dim("code", c), Dim("content", t), Dim("participation", x)>> :
             c \in DimConfigs, t \in DimConfigs,
             x \in {[weight |-> 0, max_score |-> 10], [weight |-> 40, max_score |-> 10]}}

InitRubric ==
    /\ Constructed
    /\ \E rubric_dict \in RubricInputs : arg = <<rubric_dict>>
    /\ out = <<>>

\* Rubric(rubric_dict): "none" when the object is returned, else the error.
ConstructRubric ==
    /\ out = <<>>
    /\ out' = <<Validate(arg[1])>>
    /\ UNCHANGED <<rubric, code_agent, content_agent, pc, assignment_type, problem,
                   reference, todo, batch, results, error, call, arg>>

SpecRubric == InitRubric /\ [][ConstructRubric]_vars

-----------------------------------------------------------------------------
(* The request loops of LLMService on their own.  A response is what one    *)
(* generate_content request ends with: an exception, or a text.  A text is  *)
(* kept as the set of the substrings check_relevance looks for in its       *)
(* upper-cased form, and the lines generate_semantic_feedback splits it in. *)

Raise == [kind |-> "raise", has |-> {}, lines |-> <<>>]

\* response.text is "" or None
EmptyText == [kind |-> "empty", has |-> {}, lines |-> <<>>]

\* response.text holds white space only
BlankText == [kind |-> "blank", has |-> {}, lines |-> <<>>]

Garbage == [kind |-> "text", has |-> {}, lines |-> << <<"I cannot tell.">> >>]

VerdictRelevant ==
    [kind |-> "text", has |-> {"VERDICT: RELEVANT", "RELEVANT"},
     lines |-> << <<"Reasoning: computes the factorial.">>, <<"Verdict: RELEVANT">> >>]

\* "IRRELEVANT" contains "RELEVANT"
LooseIrrelevant ==
    [kind |-> "text", has |-> {"IRRELEVANT", "RELEVANT"},
     lines |-> << <<"This is irrelevant to the task.">> >>]

Responses == {Raise, EmptyText, BlankText, Garbage, VerdictRelevant, LooseIrrelevant}

\* The verdict check_relevance reads from a text, "none" when it reads none.
ParseVerdict(has) ==
    IF "VERDICT: RELEVANT" \in has \/ "VERDICT:RELEVANT" \in has THEN "RELEVANT"
    ELSE IF "VERDICT: PARTIAL" \in has \/ "VERDICT:PARTIAL" \in has THEN "PARTIAL"
    ELSE IF "VERDICT: IRRELEVANT" \in has \/ "VERDICT:IRRELEVANT" \in has THEN "IRRELEVANT"
    ELSE IF "VERDICT: UNCERTAIN" \in has \/ "VERDICT:UNCERTAIN" \in has THEN "UNCERTAIN"
    ELSE IF "RELEVANT" \in has /\ "IRRELEVANT" \notin has /\ "PARTIAL" \notin has
         THEN "RELEVANT"
    ELSE IF "IRRELEVANT" \in has THEN "IRRELEVANT"
    ELSE IF "PARTIAL" \in has THEN "PARTIAL"
    ELSE "none"

max_retries == 2

\* The loop of check_relevance without its "except Exception": an exception
\* of a request leaves the method.
RECURSIVE RelevanceLoopRaising(_, _)
RelevanceLoopRaising(responses, attempt) ==
    IF attempt > max_retries
    THEN [raised |-> "none", verdict |-> "UNCERTAIN", requests |-> max_retries]
    ELSE IF responses[attempt].kind = "raise"
         THEN [raised |-> "Exception", verdict |-> "none", requests |-> attempt]
    ELSE IF responses[attempt].kind \in {"text", "blank"}
            /\ ParseVerdict(responses[attempt].has) # "none"
         THEN [raised |-> "none", verdict |-> ParseVerdict(responses[attempt].has),
               requests |-> attempt]
         ELSE RelevanceLoopRaising(responses, attempt + 1)

\* The loop of check_relevance from the given attempt on (attempts count from
\* 1): the verdict returned and the number of requests made.
RECURSIVE RelevanceLoop(_, _)
RelevanceLoop(responses, attempt) ==
    IF attempt > max_retries
    THEN [raised |-> "none", verdict |-> "UNCERTAIN", requests |-> max_retries]
    ELSE IF responses[attempt].kind \in {"text", "blank"}
            /\ ParseVerdict(responses[attempt].has) # "none"
         THEN [raised |-> "none", verdict |-> ParseVerdict(responses[attempt].has),
               requests |-> attempt]
         ELSE RelevanceLoop(responses, attempt + 1)

\* models_to_try of generate_semantic_feedback for the LLM_MODEL in use.
ModelsToTry(model_name) ==
    Dedup(SelectSeq(<<model_name, "gemini-2.0-flash", "gemini-flash-latest",
                      "gemini-2.5-flash", "gemini-pro-latest">>,
                    LAMBDA m : m # ""),
          {})

\* The loop of generate_semantic_feedback from the i-th model on: the lines
\* returned and the number of requests made.  A blank text has no lines and
\* comes back as one empty line.
RECURSIVE SemanticLoop(_, _, _)
SemanticLoop(models_to_try, responses, i) ==
    IF i > Len(models_to_try)
    THEN [raised |-> "none", lines |-> <<>>, requests |-> Len(models_to_try)]
    ELSE IF responses[i].kind \in {"text", "blank"}
         THEN [raised |-> "none",
               lines |-> IF responses[i].lines # <<>> THEN responses[i].lines
                         ELSE << <<>> >>,
               requests |-> i]
         ELSE SemanticLoop(models_to_try, responses, i + 1)

\* The values of LLM_MODEL tried: the default and a model of the user's own.
ModelNames == {"gemini-2.0-flash", "gemini-1.5-pro"}

\* The length of the scripts of responses: one response per request.
MaxRequests == 5

\* The service is enabled and has its key; the orchestrator is not used.
InitOracle ==
    /\ rubric = DEFAULT_RUBRIC
    /\ code_agent = NewCodeAgent(TRUE, TRUE, TRUE)
    /\ content_agent = NewContentAgent(TRUE, TRUE, TRUE)
    /\ pc = "idle"
    /\ assignment_type = "none"
    /\ problem = "none"
    /\ reference = "none"
    /\ todo = {}
    /\ batch = [code |-> {}, text |-> {}]
    /\ results = <<>>
    /\ error = "none"
    /\ call = <<>>
    /\ \E model_name \in ModelNames, responses \in [1..MaxRequests -> Responses] :
          arg = <<model_name, responses>>
    /\ out = <<>>

\* One call of check_relevance against the script.
AskRelevance ==
    /\ out = <<>>
    /\ \E r \in {RelevanceLoop(arg[2], 1)} :
          out' = <<[method |-> "check_relevance", raised |-> r.raised,
                    verdict |-> r.verdict, lines |-> <<>>, requests |-> r.requests]>>
    /\ UNCHANGED <<rubric, code_agent, content_agent, pc, assignment_type, problem,
                   reference, todo, batch, results, error, call, arg>>

\* One call of generate_semantic_feedback against the script.
AskElaboration ==
    /\ out = <<>>
    /\ \E r \in {SemanticLoop(ModelsToTry(arg[1]), arg[2], 1)} :
          out' = <<[method |-> "generate_semantic_feedback", raised |-> r.raised,
                    verdict |-> "none", lines |-> r.lines, requests |-> r.requests]>>
    /\ UNCHANGED <<rubric, code_agent, content_agent, pc, assignment_type, problem,
                   reference, todo, batch, results, error, call, arg>>

SpecOracle == InitOracle /\ [][AskRelevance \/ AskElaboration]_vars

-----------------------------------------------------------------------------
(* Properties *)

CallText(c) == TextOf(c.file.text)

CodeCalls == {i \in DOMAIN call : call[i].kind = "code"}

ContentCalls == {i \in DOMAIN call : call[i].kind = "content"}

\* What evaluate_submissions hands back: the result map once the loop is over,
\* nothing when an exception left the call.
Returned == IF pc = "returned" THEN results ELSE <<>>

\* The student names of the batch that was read.
BatchStudents == {StudentName(f) : f \in batch.code \cup batch.text}

\* C1: a Python submission that does not parse gets score 0 and a feedback
\* list of exactly one line from CodeEvaluationAgent.evaluate.
C1_ParseFailureScoresZeroWithOneLine ==
    \A i \in CodeCalls :
        (/\ call[i].out.raised = "none"
         /\ DetectLanguage(CallText(call[i]), call[i].file.ext) = "python"
         /\ CallText(call[i]).parse = "SyntaxError")
        => /\ call[i].out.result.score = 0
           /\ Len(call[i].out.result.feedback) = 1

\* C2: the normalization curve is monotonic: a <= b implies
\* _apply_learning_oriented_normalization(a) <= _apply_learning_oriented_normalization(b).
C2_CurveMonotonic ==
    (Len(out) = 2 /\ FLeq(arg[1], arg[2])) => FLeq(out[1], out[2])

\* C3: when the analyzer or the aggregator raises for one student, every
\* other student of the batch is in the returned result map.
C3_FailureIsolated ==
    (pc = "raised" /\ error # "ValueError")
    => \A s \in BatchStudents :
          (\A i \in DOMAIN call : StudentName(call[i].file) # s) => s \in DOMAIN Returned

\* C4: in a content run, a submission whose similarity with a non-empty
\* problem statement exceeds 0.6 has final_score <= 20 in its result record.
C4_CopiedPromptFinalScoreAtMost20 ==
    assignment_type = "content"
    => \A f \in batch.code :
          (IsPlagiarism(TextOf(f.text), problem) /\ StudentName(f) \in DOMAIN results
           /\ results[StudentName(f)].file = FileName(f))
          => results[StudentName(f)].final_score <= 2000

\* The four sub-scores of a content submission, each computed from the text.
SubScores(file) ==
    [coverage |-> EvaluateConceptCoverage(
                      content_agent, TextOf(file.text),
                      ExtractKeyConcepts(
                          [weights |-> CriteriaWeights(GetCriteria(rubric, "content"))],
                          reference, problem)).score,
     alignment |-> EvaluateAlignment(
                       TextOf(file.text),
                       [weights |-> CriteriaWeights(GetCriteria(rubric, "content"))])[1],
     flow |-> EvaluateLogicalFlow(TextOf(file.text))[1],
     completeness |-> EvaluateCompleteness(TextOf(file.text))[1]]

WeightedSum(scores) ==
    SumOver(DOMAIN CONTENT_WEIGHTS,
            [k \in DOMAIN CONTENT_WEIGHTS |-> scores[k] * CONTENT_WEIGHTS[k]])

\* C5 as stated: whenever the copy-similarity flag fires, the score of
\* ContentEvaluationAgent.evaluate is min(weighted sum of the four sub-scores, 20),
\* for every oracle verdict.
C5_CopyScoreIsCappedWeightedSum ==
    \A i \in ContentCalls :
        (call[i].out.raised = "none" /\ call[i].out.is_plagiarism)
        => call[i].out.result.score = Min(WeightedSum(SubScores(call[i].file)), 2000)

\* C5 amended: whenever the similarity with the problem statement exceeds 0.6,
\* the score of ContentEvaluationAgent.evaluate is at most 20: it is 0 when the
\* oracle's verdict is IRRELEVANT or the concept coverage is 0, and
\* min(weighted sum of the four sub-scores, 20) otherwise.
C5_CopyScoreAtMost20 ==
    \A i \in ContentCalls :
        (call[i].out.raised = "none" /\ IsPlagiarism(CallText(call[i]), problem))
        => /\ call[i].out.result.score <= 2000
           /\ call[i].out.stage = "final"
              => call[i].out.result.score = Min(WeightedSum(call[i].out.scores), 2000)
           /\ call[i].out.stage # "final"
              => /\ call[i].out.result.score = 0
                 /\ \/ call[i].env.verdict = "IRRELEVANT"
                    \/ SubScores(call[i].file).coverage = 0

\* C5 witness: a copied prompt reached the weighted sum, which exceeded 20, and
\* the returned score is 20.
C5_CopyCapped ==
    \E i \in ContentCalls :
        /\ call[i].out.raised = "none"
        /\ IsPlagiarism(CallText(call[i]), problem)
        /\ call[i].out.stage = "final"
        /\ WeightedSum(call[i].out.scores) > 2000
        /\ call[i].out.result.score = 2000

\* C6: for every valid rubric, the result of either analyzer satisfies
\* 0 <= score <= max_score.
C6_AnalyzerScoreWithinRange ==
    \A i \in DOMAIN call :
        call[i].out.raised = "none"
        => /\ 0 <= call[i].out.result.score
           /\ call[i].out.result.score <= call[i].out.result.max_score

\* C7: every result record of a code, content or mixed run has the keys
\* final_score, max_score, combined_feedback, assignment_type and file.
C7_ResultRecordKeys ==
    \A s \in DOMAIN results :
        {"final_score", "max_score", "combined_feedback", "assignment_type", "file"}
            \subseteq DOMAIN results[s]

\* C8: in a mixed run under any valid rubric, a student with a code file and
\* no text file gets a result record whose final_score is the curve of the
\* code output's normalized score.
C8_CodeOnlyStudentGetsRecord ==
    (/\ assignment_type = "mixed"
     /\ Len(call) = 1 /\ call[1].kind = "code" /\ call[1].out.raised = "none"
     /\ \A f \in batch.text : StudentName(f) # StudentName(call[1].file))
    => /\ pc # "raised"
       /\ StudentName(call[1].file) \in DOMAIN results
       /\ results[StudentName(call[1].file)].final_score =
              Round2(ApplyLearningOrientedNormalization(
                         NormalizeScore(call[1].out.result.score,
                                        call[1].out.result.max_score)))

\* C9: _combine_feedback is idempotent: combining its own result gives the
\* same list again, and no line is repeated that was not repeated before.
C9_CombineIdempotent ==
    Len(out) = 2
    => /\ out[2] = out[1]
       /\ \A i, j \in DOMAIN out[2] :
             (i < j /\ out[2][i] = out[2][j])
             => \E k, l \in DOMAIN out[1] : k < l /\ out[1][k] = out[2][i] /\ out[1][l] = out[2][i]

\* C10: when the elaboration returns a non-empty list, every deterministic
\* feedback line the analyzer produced is still in the feedback it returns.
C10_ElaborationOnlyAppends ==
    \A i \in DOMAIN call :
        (/\ call[i].out.raised = "none"
         /\ call[i].out.requests # <<>>
         /\ call[i].env.elaboration # <<>>)
        => \A k \in DOMAIN call[i].out.deterministic :
              \E l \in DOMAIN call[i].out.result.feedback :
                  call[i].out.result.feedback[l] = call[i].out.deterministic[k]


\* The same analyzer call made again from the state before it, with the
\* oracle's elaboration replaced by e.
Replayed(c, e) ==
    IF c.kind = "code"
    THEN RunCodeAgent(c.file, [c.env EXCEPT !.elaboration = e])
    ELSE RunContentAgent(c.file, [c.env EXCEPT !.elaboration = e])

\* C11: the elaboration never influences the score: for the same submission,
\* problem, rubric and relevance verdict, score and max_score of either
\* analyzer are the same whatever generate_semantic_feedback returns (lines,
\* or the empty list it returns when every request fails).
C11_ScoreIgnoresElaboration ==
    [][\A i \in DOMAIN call' :
          call' # call
          => \A e \in Elaborations :
                /\ Replayed(call'[i], e).raised = call'[i].out.raised
                /\ Replayed(call'[i], e).result.score = call'[i].out.result.score
                /\ Replayed(call'[i], e).result.max_score = call'[i].out.result.max_score]_vars

\* C11 witness: an analyzer asked for the elaboration, got lines, returned them
\* as its feedback, and its score is positive.
C11_ElaborationReturned ==
    \E i \in DOMAIN call :
        /\ call[i].out.raised = "none"
        /\ call[i].out.requests # <<>>
        /\ call[i].env.elaboration # <<>>
        /\ call[i].out.result.feedback = << <<SENTINEL>> >> \o call[i].env.elaboration
        /\ call[i].out.result.score > 0

\* C12: during one evaluate call of either analyzer, check_relevance is
\* entered at most once, on every control path: every verdict, both dialects,
\* a parse failure, the early returns and an exception leaving evaluate.
C12_RelevanceAskedAtMostOnce ==
    \A i \in DOMAIN call : call[i].out.relevance_calls <= 1

\* C12 witness: the oracle was asked once for a scripting-dialect submission
\* that does not parse.
C12_AskedOnceOnParseFailure ==
    \E i \in CodeCalls :
        /\ call[i].out.relevance_calls = 1
        /\ call[i].out.raised = "none"
        /\ DetectLanguage(CallText(call[i]), call[i].file.ext) = "python"
        /\ CallText(call[i]).parse = "SyntaxError"

\* A request that fails: it raises or gives no text.
Failing(r) == r.kind \in {"raise", "empty"}

\* C13: in one call of check_relevance and in one call of
\* generate_semantic_feedback, when every request fails, at most 2 requests
\* follow the first one before the fallback value (UNCERTAIN, or no lines) is
\* returned.
C13_AtMostTwoRetries ==
    (out # <<>> /\ \A i \in DOMAIN arg[2] : Failing(arg[2][i]))
    => /\ out[1].requests - 1 <= 2
       /\ out[1].method = "check_relevance" => out[1].verdict = "UNCERTAIN"
       /\ out[1].method = "generate_semantic_feedback" => out[1].lines = <<>>

\* The scripts in which no request of check_relevance yields a verdict: each
\* raises, gives no text, or gives a text without a recognizable verdict.
NoVerdictScripts == [1..max_retries -> {Raise, EmptyText, BlankText, Garbage}]

\* The analyzer call made with the oracle disabled: the keyword fallback.
FallbackRun(c) ==
    IF c.kind = "code"
    THEN CodeEvaluate(NewCodeAgent(FALSE, FALSE, TRUE), CallText(c), c.file.ext, problem,
                      CriteriaWeights(GetCriteria(rubric, "code")),
                      [verdict |-> "UNCERTAIN", elaboration |-> <<>>])
    ELSE ContentEvaluate(NewContentAgent(FALSE, FALSE, TRUE), CallText(c),
                         [weights |-> CriteriaWeights(GetCriteria(rubric, "content"))],
                         reference, problem,
                         [verdict |-> "UNCERTAIN", elaboration |-> <<>>])

\* C14: when no request of check_relevance yields a verdict, check_relevance
\* returns UNCERTAIN without raising, and the analyzer that asked returns the
\* score of its keyword fallback: no exception reaches the Orchestrator that
\* the same call with the oracle disabled would not raise.
C14_OracleFailureFallsBack ==
    /\ \A responses \in NoVerdictScripts :
          /\ RelevanceLoop(responses, 1).raised = "none"
          /\ RelevanceLoop(responses, 1).verdict = "UNCERTAIN"
    /\ \A i \in DOMAIN call :
          (call[i].out.relevance_calls = 1 /\ call[i].env.verdict = "UNCERTAIN")
          => /\ call[i].out.raised = FallbackRun(call[i]).raised
             /\ call[i].out.result.score = FallbackRun(call[i]).result.score
             /\ call[i].out.result.max_score = FallbackRun(call[i]).result.max_score

\* C14 witness: the oracle was asked, the verdict was UNCERTAIN, and the
\* keyword match gave the code submission approach 75 and a record.
C14_UncertainScoredByKeywords ==
    \E i \in CodeCalls :
        /\ call[i].out.relevance_calls = 1
        /\ call[i].env.verdict = "UNCERTAIN"
        /\ call[i].out.raised = "none"
        /\ call[i].out.result.score > 0
        /\ StudentName(call[i].file) \in DOMAIN results

\* The missing concepts of the submission of call c: the problem keywords
\* (code) or key concepts (content) that its own text does not contain.
MissingOf(c) ==
    IF c.kind = "code"
    THEN {w \in ProblemKeywords(problem) : w \notin CallText(c).words}
    ELSE {w \in ExtractKeyConcepts(
                    [weights |-> CriteriaWeights(GetCriteria(rubric, "content"))],
                    reference, problem) : w \notin CallText(c).words}

\* C15: the missing-concepts list an analyzer passes to
\* generate_semantic_feedback comes from the submission of that same evaluate
\* call (or is empty when the call computed none); it is never the list of an
\* earlier submission.
C15_MissingConceptsAreFresh ==
    \A i \in DOMAIN call :
        \A k \in DOMAIN call[i].out.requests :
            call[i].out.requests[k].missing_concepts \in {MissingOf(call[i]), {}}

\* x (hundredths) is a number in [lo, hi]; NaN is in no interval.
InRange(x, lo, hi) == ~IsNaN(x) /\ lo <= x /\ x <= hi

\* C16: constructing a Rubric returns an object only if code and content are
\* both present, every dimension weight is in [0, 1], every dimension
\* max_score is > 0 and the weights sum to 1.0 within 0.01; in every other
\* case it fails with ValueError.
C16_RubricObjectOnlyIfValid ==
    out # <<>>
    => /\ out[1] \in {"none", "ValueError"}
       /\ out[1] = "none"
          => /\ {"code", "content"} \subseteq {arg[1][i].name : i \in DOMAIN arg[1]}
             /\ \A i \in DOMAIN arg[1] :
                   /\ "weight" \in DOMAIN arg[1][i].config
                   /\ InRange(arg[1][i].config.weight, 0, 100)
                   /\ "max_score" \in DOMAIN arg[1][i].config
                   /\ ~IsNaN(arg[1][i].config.max_score)
                   /\ arg[1][i].config.max_score > 0
             /\ InRange(NumSum([i \in DOMAIN arg[1] |-> arg[1][i].config.weight]), 99, 101)

\* The key concepts of the content call under the orchestrator's inputs.
KeyConcepts ==
    ExtractKeyConcepts([weights |-> CriteriaWeights(GetCriteria(rubric, "content"))],
                       reference, problem)

CoveredKeywords(c) == {w \in ProblemKeywords(problem) : w \in CallText(c).words}

\* C18: with the oracle disabled, a code submission of either dialect that
\* contains none of the problem's candidate keywords gets approach 0,
\* structure 0, effort 0 and readability at most 10.
C18_NoKeywordWithholdsRewards ==
    \A i \in CodeCalls :
        (/\ call[i].out.raised = "none"
         /\ call[i].out.relevance_calls = 0
         /\ CoveredKeywords(call[i]) = {})
        => /\ call[i].out.scores.approach = 0
           /\ call[i].out.scores.structure = 0
           /\ call[i].out.scores.effort = 0
           /\ call[i].out.scores.readability <= 10

\* C18 witness: a submission without any keyword whose raw structure and
\* effort scores are positive and whose raw readability exceeds 10.
C18_RewardsWithheld ==
    \E i \in CodeCalls :
        LET language == DetectLanguage(CallText(call[i]), call[i].file.ext) IN
        /\ call[i].out.raised = "none"
        /\ call[i].out.relevance_calls = 0
        /\ ProblemKeywords(problem) # {}
        /\ CoveredKeywords(call[i]) = {}
        /\ EvaluateStructure(CallText(call[i]), language).score > 0
        /\ EvaluateEffort(CallText(call[i]), language).score > 0
        /\ EvaluateReadability(CallText(call[i]), language)[1] > 10
        /\ call[i].out.scores.readability = 10

C20_EffectiveWeightsSumToOne ==
    out # <<>>
    => /\ out[1].raised = "none"
       /\ Len(out[1].weights) = arg[2]
       /\ FSum(out[1].weights)[1] = FSum(out[1].weights)[2]

\* The code submission of call c is accepted by the approach scan: the
\* scripting dialect parses, the compiled dialect is not parsed.
Parses(c) ==
    \/ DetectLanguage(CallText(c), c.file.ext) # "python"
    \/ CallText(c).parse = "ok"

\* The band of the keyword match of call c: "high" when the ratio is >= 0.30
\* or at least 3 keywords match, "mid" when the ratio is >= 0.15, else "low".
KeywordBand(c) ==
    LET covered == Cardinality(CoveredKeywords(c))
        total == Cardinality(ProblemKeywords(problem))
    IN  IF covered >= 3 \/ (total > 0 /\ 100 * covered >= 30 * total) THEN "high"
        ELSE IF total > 0 /\ 100 * covered >= 15 * total THEN "mid"
        ELSE "low"

GetWeight(dims, dimension) ==
    (CHOOSE d \in Range(dims) : d.name = dimension).config.weight

\* C22: in a mixed run, for a student with a code and a content output, the
\* score before the curve is (w_code * code_normalized + w_content *
\* content_normalized) / (w_code + w_content) with the rubric's code and
\* content weights, for every valid rubric, whatever the order of its
\* dimensions and whether or not it has more of them.
C22_MixedScoreUsesDimensionWeights ==
    (/\ assignment_type = "mixed"
     /\ Len(call) = 2
     /\ call[1].out.raised = "none" /\ call[2].out.raised = "none"
     /\ GetWeight(rubric, "code") + GetWeight(rubric, "content") > 0)
    => /\ pc # "raised"
       /\ StudentName(call[1].file) \in DOMAIN results
       /\ results[StudentName(call[1].file)].final_score =
             Round2(ApplyLearningOrientedNormalization(
                 FDiv(FAdd(FMul(Frac(GetWeight(rubric, "code"), 100),
                                NormalizeScore(call[1].out.result.score,
                                               call[1].out.result.max_score)),
                           FMul(Frac(GetWeight(rubric, "content"), 100),
                                NormalizeScore(call[2].out.result.score,
                                               call[2].out.result.max_score))),
                      Frac(GetWeight(rubric, "code") + GetWeight(rubric, "content"), 100))))

\* The headings _combine_feedback writes, in the order it writes them.
Headings ==
    << <<"##", "AI Evaluator">>, <<"##", "Strengths">>, <<"##", "Areas for Improvement">>,
       <<"##", "Issues to Address">>, <<"##", "Additional Notes">> >>

\* The section line k of the combined list o belongs to: 1 the elaboration
\* block (its heading, its lines and the empty line that closes it), 2
\* Strengths, 3 Improvements, 4 Issues, 5 Notes, 6 Unclassified.
SectionOf(o, k) ==
    IF \E h \in DOMAIN Headings : o[k] = Headings[h]
    THEN CHOOSE h \in DOMAIN Headings : o[k] = Headings[h]
    ELSE IF o[1] = Headings[1] /\ \A i \in 1..(k - 1) : o[i] # <<>> THEN 1
    ELSE IF StartsWith(o[k], <<"CHECK">>) THEN 2
    ELSE IF StartsWith(o[k], <<"ARROW">>) THEN 3
    ELSE IF StartsWith(o[k], <<"CROSS">>) \/ StartsWith(o[k], <<"[", "x", "]">>) THEN 4
    ELSE IF StartsWith(o[k], <<"INFO">>) THEN 5
    ELSE 6

\* The place of the first occurrence of line f in the list s.
FirstSeen(s, f) == CHOOSE i \in DOMAIN s : s[i] = f /\ \A j \in 1..(i - 1) : s[j] # f

\* A line of the combined list that came from the input.
IsInputLine(o, k) == o[k] # <<>> /\ \A h \in DOMAIN Headings : o[k] # Headings[h]

C24_UncertainEqualsDisabled ==
    \A i \in DOMAIN call :
        (call[i].out.relevance_calls = 1 /\ call[i].env.verdict = "UNCERTAIN")
        => /\ call[i].out.raised = "none" <=> FallbackRun(call[i]).raised = "none"
           /\ call[i].out.result.score = FallbackRun(call[i]).result.score
           /\ call[i].out.scores = FallbackRun(call[i]).scores

\* C24 witness: the content analyzer asked the oracle, got UNCERTAIN, and went
\* on to the weighted sum with a positive score.
C24_UncertainContentScored ==
    \E i \in ContentCalls :
        /\ call[i].out.relevance_calls = 1
        /\ call[i].env.verdict = "UNCERTAIN"
        /\ call[i].out.raised = "none"
        /\ call[i].out.stage = "final"
        /\ call[i].out.result.score > 0

\* The analyzer of call c as Orchestrator.__init__ made it: the service was
\* enabled at construction if it is enabled now or was ever asked.
AsConstructed(agent) ==
    [llm |-> NewLLMService(agent.llm.enabled \/ agent.llm.relevance_calls > 0,
                           agent.llm.api_key, agent.llm.configure_ok),
     has_missing |-> FALSE, last_missing_concepts |-> {},
     has_verdict |-> FALSE, last_relevance_verdict |-> "UNCERTAIN"]

\* The submission of call c evaluated first on a new Orchestrator, the oracle
\* answering e.
EvaluatedFirst(c, e) ==
    IF c.kind = "code"
    THEN CodeEvaluate(AsConstructed(code_agent), CallText(c), c.file.ext, problem,
                      CriteriaWeights(GetCriteria(rubric, "code")), e)
    ELSE ContentEvaluate(AsConstructed(content_agent), CallText(c),
                         [weights |-> CriteriaWeights(GetCriteria(rubric, "content"))],
                         reference, problem, e)

\* C25: on one Orchestrator, the final_score of a submission in a code or
\* content run is the final_score it gets when it is evaluated first, given
\* the same oracle answers for it: the submissions evaluated before it make no
\* difference.  The oracle's answers are the same if it gives the verdict it
\* gave when it was asked for one, and the lines it gave when asked for lines.
C25_ScoreIndependentOfEarlierSubmissions ==
    \A i \in DOMAIN call :
        (/\ assignment_type \in {"code", "content"}
         /\ call[i].out.raised = "none"
         /\ StudentName(call[i].file) \in DOMAIN results)
        => \A e \in Envs(AsConstructed(IF call[i].kind = "code" THEN code_agent
                                       ELSE content_agent)) :
              (/\ call[i].out.relevance_calls > 0 => e.verdict = call[i].env.verdict
               /\ call[i].out.requests # <<>> => e.elaboration = call[i].env.elaboration)
              => /\ EvaluatedFirst(call[i], e).raised = "none"
                 /\ AggregatorEvaluate(<<EvaluatedFirst(call[i], e).result>>, <<100>>).final_score
                       = results[StudentName(call[i].file)].final_score

\* C26: no feedback line is lost by _combine_feedback: every distinct line of
\* a non-empty input list that does not contain the sentinel occurs exactly
\* once in the output, whatever its leading characters.
C26_EveryLineKeptOnce ==
    (Len(out) = 2 /\ arg[1] # <<>>)
    => \A i \in DOMAIN arg[1] :
          ~Contains(arg[1][i], SENTINEL)
          => Cardinality({k \in DOMAIN out[1] : out[1][k] = arg[1][i]}) = 1

\* C27: a code or content run returns exactly one record per submission read:
\* no two files read map to the same student identifier, so no record is
\* overwritten.
C27_OneRecordPerSubmission ==
    (pc = "returned" /\ assignment_type \in {"code", "content"})
    => /\ \A f, g \in batch.code : StudentName(f) = StudentName(g) => f = g
       /\ Cardinality(DOMAIN results) = Cardinality(batch.code)

\* C28: for every non-empty list of analyzer outputs with 0 <= score <=
\* max_score and every weight list in [0, 1] of any length,
\* AggregatorAgent.evaluate returns a final_score from 0 to 100 with
\* max_score 100.
C28_FinalScoreInRange ==
    out # <<>>
    => /\ out[1].raised = "none"
       /\ 0 <= out[1].final_score /\ out[1].final_score <= 10000
       /\ out[1].max_score = 10000

\* C29: with the oracle disabled and a problem statement that is empty or has
\* no candidate keyword, every code submission gets approach 0 and is gated:
\* structure 0, effort 0 and readability at most 10.
C29_NoProblemKeywordsGatesEverything ==
    \A i \in CodeCalls :
        (/\ call[i].out.raised = "none"
         /\ ~code_agent.llm.enabled /\ call[i].out.relevance_calls = 0
         /\ ProblemKeywords(problem) = {})
        => /\ call[i].out.scores.approach = 0
           /\ call[i].out.scores.structure = 0
           /\ call[i].out.scores.effort = 0
           /\ call[i].out.scores.readability <= 10

\* C29 witness: a code run without a problem statement gated a submission
\* that parses and whose raw structure and effort scores are positive.
C29_GatedWithoutProblem ==
    \E i \in CodeCalls :
        LET language == DetectLanguage(CallText(call[i]), call[i].file.ext) IN
        /\ assignment_type = "code" /\ problem = "none"
        /\ call[i].out.raised = "none"
        /\ ~code_agent.llm.enabled /\ call[i].out.relevance_calls = 0
        /\ Parses(call[i])
        /\ EvaluateStructure(CallText(call[i]), language).score > 0
        /\ EvaluateEffort(CallText(call[i]), language).score > 0
        /\ call[i].out.scores.approach = 0
        /\ call[i].out.scores.structure = 0 /\ call[i].out.scores.effort = 0

\* Weights for the four criteria of the content dimension, in hundredths.
ContentWeightsTried ==
    {[coverage |-> w[1], alignment |-> w[2], flow |-> w[3], completeness |-> w[4]] :
        w \in {<<35, 25, 20, 20>>, <<10, 70, 10, 10>>, <<100, 0, 0, 0>>}}

\* The rubric dims with the weights of the content dimension's criteria
\* replaced by w, everything else as it is.
WithContentWeights(dims, w) ==
    [j \in DOMAIN dims |->
        IF dims[j].name = "content" /\ "criteria" \in DOMAIN dims[j].config
        THEN [dims[j] EXCEPT !.config.criteria =
                 [k \in DOMAIN @ |-> IF k \in DOMAIN w
                                     THEN [c \in DOMAIN @[k] \cup {"weight"} |->
                                              IF c = "weight" THEN w[k] ELSE @[k][c]]
                                     ELSE @[k]]]
        ELSE dims[j]]

\* C30: the content score does not depend on the weights the rubric gives the
\* criteria of its content dimension: in a content run, the final_score of
\* every submission is the one the same run gives it under any valid rubric
\* that differs only in those weights.
C30_ContentScoreIgnoresCriteriaWeights ==
    [][(assignment_type' = "content" /\ call' # call)
       => \A i \in DOMAIN call', w \in ContentWeightsTried :
             (/\ Validate(WithContentWeights(rubric, w)) = "none"
              /\ call'[i].out.raised = "none"
              /\ StudentName(call'[i].file) \in DOMAIN results')
             => \E o \in {ContentEvaluate(content_agent, CallText(call'[i]),
                              [weights |-> CriteriaWeights(
                                  GetCriteria(WithContentWeights(rubric, w), "content"))],
                              reference, problem, call'[i].env)} :
                   /\ o.raised = "none"
                   /\ AggregatorEvaluate(<<o.result>>, <<100>>).final_score
                         = results'[StudentName(call'[i].file)].final_score]_vars

\* C30 witness: a content run scored a submission above 0 under a rubric whose
\* content criteria weights could validly have been different.
C30_ScoredUnderReweightableRubric ==
    \E i \in ContentCalls :
        /\ assignment_type = "content"
        /\ call[i].out.raised = "none" /\ call[i].out.stage = "final"
        /\ StudentName(call[i].file) \in DOMAIN results
        /\ results[StudentName(call[i].file)].final_score > 0
        /\ \E w \in ContentWeightsTried :
              /\ WithContentWeights(rubric, w) # rubric
              /\ Validate(WithContentWeights(rubric, w)) = "none"
              /\ CriteriaWeights(GetCriteria(WithContentWeights(rubric, w), "content"))
                    # CriteriaWeights(GetCriteria(rubric, "content"))

====
